---------------------------- MODULE Spec2Model ----------------------------
(***************************************************************************)
(* Link-layer transmit path of the balloon firmware (LoRaManager).        *)
(*                                                                         *)
(* LoRaManager keeps five bounded FIFOs of QueuedPacket, one per Priority, *)
(* and a poll-driven processQueue() that first polls the radio for an      *)
(* incoming ACK / NACK and then transmits, retries or drops the head of    *)
(* the highest-priority non-empty queue.                                   *)
(*                                                                         *)
(* The code is single threaded: sendPacket, processQueue and the passage   *)
(* of millis() interleave only at call boundaries.  processQueue is        *)
(* modelled as two consecutive steps (poll, then send) that nothing can    *)
(* come between; pc records which half runs next.                          *)
(*                                                                         *)
(* Arrays are 0-based in the code and sequences 1-based here: queue slot i *)
(* of the code is element i + 1 of the sequence.  Slots at and above       *)
(* queueSizes[p] are never read by the code and are not represented, so    *)
(* queueSizes[p] is Len(priorityQueues[p]).                                *)
(***************************************************************************)
EXTENDS Integers, Sequences, FiniteSets, TLC

(***************************************************************************)
(* Program constants.                                                      *)
(***************************************************************************)
EMERGENCY == 1
GPS == 2
TELEMETRY == 3
CAMERA == 4
STATUS == 5
MAX_QUEUE_SIZE == 10
MAX_RETRIES == 3
ACK_TIMEOUT_MS == 2000
NUM_PRIORITIES == 5
LORA_SPREADING_FACTOR == 7
ADAPTIVE_SF_HIGH_THRESHOLD == -80
ADAPTIVE_SF_LOW_THRESHOLD == -110
MAX_PACKET_SIZE == 240
MAX_PAYLOAD_SIZE == 200
SIZEOF_PACKET_HEADER == 8      \* sizeof(PacketHeader): 7 bytes of fields, aligned to 2
SIZEOF_PACKET_FOOTER == 4      \* sizeof(PacketFooter)
LORA_TX_POWER == 20
RSSI_HISTORY_SIZE == 10
PACKET_START_BYTE1 == 170      \* 0xAA
PACKET_START_BYTE2 == 85       \* 0x55
PACKET_END_BYTE1 == 13         \* 0x0D
PACKET_END_BYTE2 == 10         \* 0x0A
CRC8_POLYNOMIAL == 7           \* 0x07
CRC16_POLYNOMIAL == 4129       \* 0x1021
CRC16_REFLECTED == 40961       \* 0xA001, in LoRaManager::calculateCRC16
PACKET_TYPE_ACK == 6           \* PacketType::ACK
PACKET_TYPE_NACK == 7          \* PacketType::NACK
PACKET_TYPE_HEARTBEAT == 1
PACKET_TYPE_DEBUG == 8
SIZEOF_RECEIVE_BUFFER == 512   \* sizeof(receiveBuffer)

(***************************************************************************)
(* Bounds of the model.                                                    *)
(***************************************************************************)
MaxWork == 9          \* budget of one behaviour, spent by sendPacket and the clock
EnqueueCost == 3      \* what one sendPacket call takes from the budget
RxErrorCost == 3      \* what one rejected reception takes from the budget
MaxSeq == 1           \* sequence numbers carried by packets are 0..MaxSeq
BacklogWork == 3      \* budget left to a behaviour that starts from the backlog
MsPerStep == 2000     \* granularity of the clock
MaxTxErrors == 1      \* failed transmitPacket calls in one behaviour
PayloadLength == 16   \* payload length of the packets handed to sendPacket directly
MaxSamples == 11      \* updateSignalQuality calls between two resetStatistics calls
MaxRun == 10          \* length of the longest run of strong-signal evaluations
MaxPayloadLen == 2    \* length of the payloads handed to assemblePacket
MaxLinkPayload == 2   \* length of the short payloads handed to transmitPacket
MaxChunk == 3         \* longest chunk handed to processIncomingData short of all the rest
ReceiveWork == 4      \* budget left for rejected receptions and the clock in SpecReceive

Levels == 0 .. (NUM_PRIORITIES - 1)
SeqNums == 0 .. MaxSeq
NULL == <<>>

VARIABLES
    priorityQueues,          \* [Levels -> Seq(QueuedPacket)]
    now,                     \* millis()
    pc,                      \* "idle" | "polled": position inside processQueue
    transmitErrorCount,
    receiveErrorCount,
    crcErrorCount,
    ackTimeoutCount,
    currentSpreadingFactor,
    enqueued,                \* number of sendPacket calls so far
    work                     \* budget used so far: EnqueueCost per sendPacket call,
                             \* RxErrorCost per rejected reception, 1 per clock advance

VARIABLES
    currentTxPower,
    rssiHistory,             \* [0 .. RSSI_HISTORY_SIZE - 1 -> int8]
    snrHistory,
    rssiIndex,
    snrIndex,
    lastRssi,
    lastSnr

\* Observers of the link specifications (SpecAdaptive, SpecSignal).  They
\* record what was called, they are read by no action, and the queue
\* specifications do not keep them.
VARIABLES
    recorded,                \* the <<rssi, snr>> samples recorded since construction
                             \* or the last resetStatistics, oldest first
    lastCall,                \* name of the operation called last
    adaptedValue,            \* the value adaptTransmissionSettings last moved the
                             \* spreading factor to; 0 when the factor in use before
                             \* any low-power override did not come from adaptation
    run                      \* the spreading factor before and after each of the
                             \* strong-signal evaluations made in a row up to now

\* PacketHandler.
VARIABLES
    currentSequenceNumber,   \* uint8_t
    packetData,              \* the buffer of the last assemblePacket call that
                             \* succeeded, <<>> before the first one
    assembled                \* observer: the arguments of that call

\* PacketHandler, receiving.
VARIABLES
    receiveBuffer,           \* receiveBuffer[0 .. receiveIndex - 1]
    inPacket,
    expectedPayloadSize,
    crcErrors,
    packetsReceived

\* Observers of the byte stream processIncomingData is fed from.
VARIABLES
    stream,                  \* the bytes that arrive, in order
    fed,                     \* how many of them have been handed in so far
    lastChunk,               \* length of the last processIncomingData call
    emitted                  \* the buffers processCompletePacket accepted, in order

\* The memory of a producer that calls the typed senders.
VARIABLES
    producerBuffer,          \* the buffer the producer passes as data: its bytes and
                             \* whether it is not yet allocated, live or released
    handedIn,                \* observer: uid :> the bytes the buffer held when the
                             \* sender call for that entry was made
    onAir                    \* observer: uid and payload bytes of the frame
                             \* transmitted last, uid 0 before the first

\* PacketHandler, the queue of packets to send.
VARIABLES
    packetQueue,             \* [0 .. 15 -> slot]: data (a pointer, 0 for nullptr),
                             \* priority, timestamp, and the observer uid
    queueSize,
    packetsSent,
    packetsDropped,
    live,                    \* the heap: the pointers malloc returned and free has
                             \* not been given since
    held,                    \* the pointers getBufferedPacket handed to its caller
                             \* and the caller has not freed yet
    undefinedBehaviour,      \* free was given a pointer that is not allocated
    added,                   \* observer: number of addToBuffer calls that stored
    dequeued,                \* what dequeuePacket last returned through packetData
    bufferOps                \* number of calls on the queue so far

\* The radio frames of LoRaManager.
VARIABLES
    radioBuffer,             \* observer: the bytes the radio handed to the last
                             \* receivePacket call, <<>> before the first one
    serialized,              \* the static buffer of transmitPacket after the last
                             \* serializePacket call that returned true: length bytes
    serializedFrom           \* observer: the packet transmitPacket is called with

queueVars == <<priorityQueues, now, pc, transmitErrorCount, receiveErrorCount,
               crcErrorCount, ackTimeoutCount, enqueued, work>>

signalVars == <<rssiHistory, snrHistory, rssiIndex, snrIndex, lastRssi, lastSnr, recorded>>

adaptVars == <<currentTxPower, lastCall, adaptedValue, run>>

loraVars == <<queueVars, currentSpreadingFactor, signalVars, adaptVars>>

framerVars == <<receiveBuffer, inPacket, expectedPayloadSize, crcErrors, packetsReceived,
                stream, fed, lastChunk, emitted>>

packetHandlerVars == <<currentSequenceNumber, packetData, assembled, framerVars>>

receiveVars == <<radioBuffer, serialized, serializedFrom>>

producerVars == <<producerBuffer, handedIn, onAir>>

bufferVars == <<packetQueue, queueSize, packetsSent, packetsDropped, live, held,
                undefinedBehaviour, added, dequeued, bufferOps>>

vars == <<loraVars, packetHandlerVars, receiveVars, producerVars, bufferVars>>

(***************************************************************************)
(* Packet, as far as the transmit path reads it: the sequence number and   *)
(* the length of the payload.                                              *)
(***************************************************************************)
Packet(sequenceNumber, payloadLength) ==
    [sequenceNumber |-> sequenceNumber, payloadLength |-> payloadLength]

(***************************************************************************)
(* QueuedPacket, as sendPacket fills it in.  uid stands for the packet     *)
(* contents handed in by the producer (each call brings its own payload);  *)
(* seq is packet.sequenceNumber, payloadLength is packet.payloadLength;    *)
(* priority is 1..5 as in enum Priority.                                   *)
(***************************************************************************)
QueuedPacket(uid, packet, priority) ==
    [uid |-> uid, seq |-> packet.sequenceNumber,
     payloadLength |-> packet.payloadLength, priority |-> priority,
     transmitAttempts |-> 0, lastTransmitTime |-> 0, waitingForAck |-> FALSE]


(***************************************************************************)
(* Queue primitives.  q is the array of the five queues.                   *)
(***************************************************************************)

\* On overflow overwrites the last slot: the newest queued entry is lost, not
\* the oldest.
addToQueueInternalDropsNewest(q, queuedPacket) ==
    LET priorityIndex == queuedPacket.priority - 1
        level == q[priorityIndex]
    IN  IF Len(level) < MAX_QUEUE_SIZE
        THEN [q EXCEPT ![priorityIndex] = Append(level, queuedPacket)]
        ELSE [q EXCEPT ![priorityIndex][MAX_QUEUE_SIZE] = queuedPacket]

\* No capacity check: the level grows past MAX_QUEUE_SIZE.
addToQueueInternalUnbounded(q, queuedPacket) ==
    [q EXCEPT ![queuedPacket.priority - 1] = Append(@, queuedPacket)]

\* Stores the new entry in slot 0, in front of the older ones.
addToQueueInternalFront(q, queuedPacket) ==
    LET priorityIndex == queuedPacket.priority - 1
        level == q[priorityIndex]
    IN  IF Len(level) < MAX_QUEUE_SIZE
        THEN [q EXCEPT ![priorityIndex] = <<queuedPacket>> \o level]
        ELSE [q EXCEPT ![priorityIndex] =
                 <<queuedPacket>> \o SubSeq(level, 1, MAX_QUEUE_SIZE - 1)]

\* addToQueueInternal: append when the level has room; otherwise shift the
\* level down by one slot (slot 0 is lost) and store the new entry in the
\* last slot.  queueSizes is left at MAX_QUEUE_SIZE in that case.
addToQueueInternal(q, queuedPacket) ==
    LET priorityIndex == queuedPacket.priority - 1
        level == q[priorityIndex]
    IN  IF Len(level) < MAX_QUEUE_SIZE
        THEN [q EXCEPT ![priorityIndex] = Append(level, queuedPacket)]
        ELSE [q EXCEPT ![priorityIndex] =
                 [i \in 1 .. MAX_QUEUE_SIZE |->
                     IF i < MAX_QUEUE_SIZE THEN level[i + 1] ELSE queuedPacket]]

\* getNextPacket: for (priority = 0; priority < 5; priority++) return the
\* address of slot 0 of the first level whose size is positive, else nullptr.
\* A pointer is modelled as <<level, position>>.
RECURSIVE getNextPacketFrom(_, _)
getNextPacketFrom(q, priority) ==
    IF priority >= NUM_PRIORITIES THEN NULL
    ELSE IF Len(q[priority]) > 0 THEN <<priority, 1>>
    ELSE getNextPacketFrom(q, priority + 1)

\* Scans the levels from Status up to Emergency.
RECURSIVE getNextPacketDown(_, _)
getNextPacketDown(q, priority) ==
    IF priority < 0 THEN NULL
    ELSE IF Len(q[priority]) > 0 THEN <<priority, 1>>
    ELSE getNextPacketDown(q, priority - 1)

getNextPacketReversed(q) == getNextPacketDown(q, NUM_PRIORITIES - 1)

\* Starts the scan at index 1: the Emergency level is never looked at.
getNextPacketSkipsFirst(q) == getNextPacketFrom(q, 1)

getNextPacket(q) == getNextPacketFrom(q, 0)

\* Decrements the size without shifting: the last slot is lost.
removePacketFromQueueNoShift(q, priorityIndex, index) ==
    [q EXCEPT ![priorityIndex] = SubSeq(@, 1, Len(@) - 1)]

\* removePacketFromQueue: shift the slots after index down by one and
\* decrement the size.
removePacketFromQueue(q, priorityIndex, index) ==
    LET level == q[priorityIndex]
    IN  [q EXCEPT ![priorityIndex] =
            [i \in 1 .. (Len(level) - 1) |->
                IF i < index THEN level[i] ELSE level[i + 1]]]

\* The search loop shared by handleAck and handleNack: levels 0..4, slots
\* 0..size-1, first entry with the sequence number that is waiting for ACK.
RECURSIVE findWaitingFrom(_, _, _, _)
findWaitingFrom(q, sequence, priority, i) ==
    IF priority >= NUM_PRIORITIES THEN NULL
    ELSE IF i > Len(q[priority]) THEN findWaitingFrom(q, sequence, priority + 1, 1)
    ELSE IF q[priority][i].seq = sequence /\ q[priority][i].waitingForAck
         THEN <<priority, i>>
    ELSE findWaitingFrom(q, sequence, priority, i + 1)

findWaiting(q, sequence) == findWaitingFrom(q, sequence, 0, 1)

\* Removes the first waiting entry of the first level that has one, whatever
\* its sequence number.
handleAckAnySequence(q, ack) ==
    IF ack.payloadLength < 4 THEN q
    ELSE LET hits == {findWaiting(q, s) : s \in SeqNums} \ {NULL}
         IN  IF hits = {} THEN q
             ELSE LET hit == CHOOSE h \in hits :
                                 \A g \in hits : h[1] < g[1] \/ (h[1] = g[1] /\ h[2] <= g[2])
                  IN  removePacketFromQueue(q, hit[1], hit[2])

\* handleAck: an ACK shorter than 4 bytes is ignored; otherwise the first
\* waiting entry with the acknowledged sequence number is removed.
handleAck(q, ack) ==
    IF ack.payloadLength < 4 THEN q
    ELSE LET hit == findWaiting(q, ack.seq)
         IN  IF hit = NULL THEN q
             ELSE removePacketFromQueue(q, hit[1], hit[2])

\* Counts the NACK as one more attempt.
handleNackCountsAttempt(q, nack) ==
    IF nack.payloadLength < 3 THEN q
    ELSE LET hit == findWaiting(q, nack.seq)
         IN  IF hit = NULL THEN q
             ELSE [q EXCEPT ![hit[1]][hit[2]] =
                      [@ EXCEPT !.waitingForAck = FALSE,
                                !.transmitAttempts = @ + 1]]

\* handleNack: a NACK shorter than 3 bytes is ignored; otherwise
\* waitingForAck is cleared on the first waiting entry with that number.
handleNack(q, nack) ==
    IF nack.payloadLength < 3 THEN q
    ELSE LET hit == findWaiting(q, nack.seq)
         IN  IF hit = NULL THEN q
             ELSE [q EXCEPT ![hit[1]][hit[2]].waitingForAck = FALSE]

\* The queued entry with the given uid, and the uids of the entries whose
\* transmitAttempts is higher in r than in q.
EntryOf(q, uid) ==
    LET p == CHOOSE l \in 0 .. (NUM_PRIORITIES - 1) :
                 \E i \in 1 .. Len(q[l]) : q[l][i].uid = uid
        i == CHOOSE k \in 1 .. Len(q[p]) : q[p][k].uid = uid
    IN  q[p][i]

HasEntry(q, uid) ==
    \E l \in 0 .. (NUM_PRIORITIES - 1) : \E i \in 1 .. Len(q[l]) : q[l][i].uid = uid

TransmittedUids(q, r) ==
    {uid \in 1 .. (MAX_QUEUE_SIZE + MaxWork) :
        /\ HasEntry(q, uid)
        /\ HasEntry(r, uid)
        /\ EntryOf(r, uid).transmitAttempts > EntryOf(q, uid).transmitAttempts}

(***************************************************************************)
(* Adaptive spreading factor.                                              *)
(***************************************************************************)
setSpreadingFactor(current, sf) ==
    IF sf < 6 \/ sf > 12 THEN current ELSE sf

\* Steps down on every strong sample, with no test against the floor.
adaptTransmissionSettingsNoFloor(current, rssi) ==
    IF rssi > ADAPTIVE_SF_HIGH_THRESHOLD
    THEN setSpreadingFactor(current, current - 1)
    ELSE IF rssi < ADAPTIVE_SF_LOW_THRESHOLD /\ current < 12
    THEN setSpreadingFactor(current, current + 1)
    ELSE current

\* Takes a sample on a threshold for one beyond it.
adaptTransmissionSettingsInclusive(current, rssi) ==
    IF rssi >= ADAPTIVE_SF_HIGH_THRESHOLD /\ current > 7
    THEN setSpreadingFactor(current, current - 1)
    ELSE IF rssi <= ADAPTIVE_SF_LOW_THRESHOLD /\ current < 12
    THEN setSpreadingFactor(current, current + 1)
    ELSE current

\* adaptTransmissionSettings (ENABLE_ADAPTIVE_SF is true): one step down on
\* a strong signal while above 7, one step up on a weak one while below 12.
adaptTransmissionSettings(current, rssi) ==
    IF rssi > ADAPTIVE_SF_HIGH_THRESHOLD /\ current > 7
    THEN setSpreadingFactor(current, current - 1)
    ELSE IF rssi < ADAPTIVE_SF_LOW_THRESHOLD /\ current < 12
    THEN setSpreadingFactor(current, current + 1)
    ELSE current

(***************************************************************************)
(* What the radio holds when receivePacket polls it: nothing, a valid ACK  *)
(* or NACK (with the sequence number and the length of its payload), a     *)
(* valid packet of another type, a buffer deserializePacket rejects, or a  *)
(* packet validatePacket rejects.  Only the first four reach the switch of *)
(* processIncomingPacket; the last two are counted and dropped.            *)
(***************************************************************************)
RssiValues == {-120, -100, -60}

Incoming ==
    {[type |-> "none"], [type |-> "data"], [type |-> "undecodable"], [type |-> "badcrc"]}
    \cup [type : {"ACK"}, seq : SeqNums, payloadLength : {3, 4}, rssi : RssiValues]
    \cup [type : {"NACK"}, seq : SeqNums, payloadLength : {2, 3}]

(***************************************************************************)
(* State after the constructor.                                            *)
(***************************************************************************)
InitLink ==
    /\ currentTxPower = LORA_TX_POWER
    /\ rssiHistory = [i \in 0 .. (RSSI_HISTORY_SIZE - 1) |-> 0]
    /\ snrHistory = [i \in 0 .. (RSSI_HISTORY_SIZE - 1) |-> 0]
    /\ rssiIndex = 0
    /\ snrIndex = 0
    /\ lastRssi = -128
    /\ lastSnr = -128
    /\ recorded = <<>>
    /\ lastCall = "LoRaManager"
    /\ adaptedValue = 0
    /\ run = <<>>

\* A producer that has not passed anything yet.
InitProducer ==
    /\ producerBuffer = [state |-> "none", bytes |-> <<>>]
    /\ handedIn = <<>>
    /\ onAir = [uid |-> 0, payload |-> <<>>]

\* PacketHandler::PacketHandler, the queue and its counters.
QUEUE_SLOTS == 16

PRIORITY_LOW == 0

PRIORITY_NORMAL == 1

PRIORITY_HIGH == 2

PRIORITY_CRITICAL == 3

EmptySlot == [data |-> 0, priority |-> PRIORITY_NORMAL, timestamp |-> 0, uid |-> 0]

NothingDequeued == [data |-> 0, uid |-> 0]

InitBuffer ==
    /\ packetQueue = [i \in 0 .. (QUEUE_SLOTS - 1) |-> EmptySlot]
    /\ queueSize = 0
    /\ packetsSent = 0
    /\ packetsDropped = 0
    /\ live = {}
    /\ held = {}
    /\ undefinedBehaviour = FALSE
    /\ added = 0
    /\ dequeued = NothingDequeued
    /\ bufferOps = 0

\* PacketHandler::PacketHandler.
InitPacketHandler ==
    /\ currentSequenceNumber = 0
    /\ packetData = <<>>
    /\ assembled = <<>>
    /\ receiveBuffer = <<>>
    /\ inPacket = FALSE
    /\ expectedPayloadSize = 0
    /\ crcErrors = 0
    /\ packetsReceived = 0
    /\ fed = 0
    /\ lastChunk = 0
    /\ emitted = <<>>

Init ==
    /\ priorityQueues = [p \in Levels |-> <<>>]
    /\ now = 0
    /\ pc = "idle"
    /\ transmitErrorCount = 0
    /\ receiveErrorCount = 0
    /\ crcErrorCount = 0
    /\ ackTimeoutCount = 0
    /\ currentSpreadingFactor = LORA_SPREADING_FACTOR
    /\ enqueued = 0
    /\ work = 0
    /\ InitLink
    /\ InitPacketHandler
    /\ stream = <<>>
    /\ radioBuffer = <<>>
    /\ serialized = <<>>
    /\ serializedFrom = <<>>
    /\ InitProducer
    /\ InitBuffer

(***************************************************************************)
(* sendPacket(packet, priority): wraps the packet in a fresh QueuedPacket  *)
(* and queues it.  Nothing about the packet is tested; the call always     *)
(* returns true.                                                           *)
(***************************************************************************)
\* What sendPacket does to the manager.
queuePacket(packet, priority) ==
    /\ pc = "idle"
    /\ work + EnqueueCost <= MaxWork
    /\ enqueued' = enqueued + 1
    /\ work' = work + EnqueueCost
    /\ priorityQueues' =
           addToQueueInternal(priorityQueues, QueuedPacket(enqueued + 1, packet, priority))
    /\ UNCHANGED <<now, pc, transmitErrorCount, receiveErrorCount, crcErrorCount,
                   ackTimeoutCount, currentSpreadingFactor>>
    /\ UNCHANGED <<signalVars, adaptVars, packetHandlerVars, receiveVars>>

sendPacket(packet, priority) ==
    /\ queuePacket(packet, priority)
    /\ UNCHANGED <<producerVars, bufferVars>>

(***************************************************************************)
(* The typed senders: createPacket builds the Packet around the caller's   *)
(* data (sequenceNumber is set to 0 there and written nowhere else;        *)
(* LoRaManager::nextSequenceNumber is initialised by the constructor and   *)
(* never read), and sendPacket queues it at the priority of the type.      *)
(***************************************************************************)
createPacket(length) == Packet(0, length)

sendTelemetry(length) == sendPacket(createPacket(length), TELEMETRY)

sendGPSData(length) == sendPacket(createPacket(length), GPS)

sendCameraThumbnail(length) == sendPacket(createPacket(length), CAMERA)

sendStatus(length) == sendPacket(createPacket(length), STATUS)

sendEmergency(length) == sendPacket(createPacket(length), EMERGENCY)

(***************************************************************************)
(* millis() moves on between calls.                                        *)
(***************************************************************************)
AdvanceTime ==
    /\ pc = "idle"
    /\ work + 1 <= MaxWork
    /\ now' = now + MsPerStep
    /\ work' = work + 1
    /\ UNCHANGED <<priorityQueues, pc, transmitErrorCount, receiveErrorCount,
                   crcErrorCount, ackTimeoutCount, currentSpreadingFactor, enqueued>>
    /\ UNCHANGED <<signalVars, adaptVars, packetHandlerVars, receiveVars, producerVars, bufferVars>>

(***************************************************************************)
(* processQueue, first half: processIncomingPacket.                        *)
(***************************************************************************)
\* What processIncomingPacket does with the outcome of receivePacket.
dispatchIncoming(packet) ==
    /\ pc = "idle"
    /\ packet.type \in {"undecodable", "badcrc"} => work + RxErrorCost <= MaxWork
    /\ pc' = "polled"
    /\ priorityQueues' =
           CASE packet.type = "ACK" -> handleAck(priorityQueues, packet)
             [] packet.type = "NACK" -> handleNack(priorityQueues, packet)
             [] OTHER -> priorityQueues
    /\ currentSpreadingFactor' =
           IF /\ packet.type = "ACK"
              /\ packet.payloadLength >= 4
              /\ findWaiting(priorityQueues, packet.seq) # NULL
           THEN adaptTransmissionSettings(currentSpreadingFactor, packet.rssi)
           ELSE currentSpreadingFactor
    /\ receiveErrorCount' =
           IF packet.type = "undecodable" THEN receiveErrorCount + 1 ELSE receiveErrorCount
    /\ crcErrorCount' =
           IF packet.type = "badcrc" THEN crcErrorCount + 1 ELSE crcErrorCount
    /\ work' = IF packet.type \in {"undecodable", "badcrc"} THEN work + RxErrorCost ELSE work
    /\ UNCHANGED <<now, transmitErrorCount, ackTimeoutCount, enqueued>>
    /\ UNCHANGED <<signalVars, adaptVars, packetHandlerVars>>

processIncomingPacket(packet) ==
    /\ dispatchIncoming(packet)
    /\ UNCHANGED <<receiveVars, producerVars, bufferVars>>

(***************************************************************************)
(* processQueue, second half: everything after processIncomingPacket().    *)
(* driverOk is the result of LoRa.endPacket().                             *)
(***************************************************************************)
\* serializePacket: fails when header, type, sequence number, payload and
\* CRC do not fit in MAX_PACKET_SIZE bytes.
serializePacket(entry) ==
    SIZEOF_PACKET_HEADER + 1 + 2 + entry.payloadLength + 2 <= MAX_PACKET_SIZE

\* transmitPacket: false when serializePacket fails (the driver is then not
\* called) or when LoRa.endPacket() reports failure.
transmitPacket(entry, driverOk) == serializePacket(entry) /\ driverOk

\* millis() - lastTransmitTime in uint32_t arithmetic is the elapsed time
\* (also across a wrap of millis()); the clock of the model stays far below
\* 2^32, where the subtraction is the plain difference.
ackTimedOut(entry, millis) ==
    (millis - entry.lastTransmitTime) > ACK_TIMEOUT_MS

\* Off by one: lets an entry through with MAX_RETRIES attempts already made.
retryLimitOffByOne(entry) == entry.transmitAttempts > MAX_RETRIES

retryLimitReached(entry) == entry.transmitAttempts >= MAX_RETRIES

\* What the second half of processQueue does to the manager.
transmitNext(driverOk) ==
    /\ pc = "polled"
    /\ pc' = "idle"
    /\ LET nextPacket == getNextPacket(priorityQueues)
       IN  IF nextPacket = NULL
           THEN UNCHANGED <<priorityQueues, transmitErrorCount, ackTimeoutCount>>
           ELSE
           LET entry == priorityQueues[nextPacket[1]][nextPacket[2]]
           IN  IF entry.waitingForAck /\ ~ackTimedOut(entry, now)
               THEN \* still waiting for ACK
                    UNCHANGED <<priorityQueues, transmitErrorCount, ackTimeoutCount>>
               ELSE
               /\ ackTimeoutCount' =
                      IF entry.waitingForAck THEN ackTimeoutCount + 1 ELSE ackTimeoutCount
               /\ IF retryLimitReached(entry)
                  THEN /\ priorityQueues' =
                              removePacketFromQueue(
                                  [priorityQueues EXCEPT
                                      ![nextPacket[1]][nextPacket[2]].waitingForAck = FALSE],
                                  entry.priority - 1, nextPacket[2])
                       /\ transmitErrorCount' = transmitErrorCount + 1
                  ELSE IF transmitPacket(entry, driverOk)
                  THEN /\ priorityQueues' =
                              [priorityQueues EXCEPT ![nextPacket[1]][nextPacket[2]] =
                                  [@ EXCEPT !.transmitAttempts = @ + 1,
                                            !.lastTransmitTime = now,
                                            !.waitingForAck = TRUE]]
                       /\ UNCHANGED transmitErrorCount
                  ELSE /\ transmitErrorCount < MaxTxErrors
                       /\ priorityQueues' =
                              [priorityQueues EXCEPT
                                  ![nextPacket[1]][nextPacket[2]].waitingForAck = FALSE]
                       /\ transmitErrorCount' = transmitErrorCount + 1
    /\ UNCHANGED <<now, receiveErrorCount, crcErrorCount, currentSpreadingFactor,
                   enqueued, work>>
    /\ UNCHANGED <<signalVars, adaptVars, packetHandlerVars, receiveVars>>

processQueue(driverOk) ==
    /\ transmitNext(driverOk)
    /\ UNCHANGED <<producerVars, bufferVars>>

(***************************************************************************)
(* A producer burst: the state after MAX_QUEUE_SIZE sendPacket calls for   *)
(* camera chunks and one for telemetry, made right after construction and  *)
(* before the first processQueue: the camera level is full.                *)
(***************************************************************************)
BacklogPriority == CAMERA

InitBacklog ==
    /\ priorityQueues =
           [p \in Levels |->
               IF p = BacklogPriority - 1
               THEN [i \in 1 .. MAX_QUEUE_SIZE |->
                        QueuedPacket(i, Packet(i % (MaxSeq + 1), PayloadLength),
                                     BacklogPriority)]
               ELSE IF p = TELEMETRY - 1
               THEN <<QueuedPacket(MAX_QUEUE_SIZE + 1, Packet(0, PayloadLength), TELEMETRY)>>
               ELSE <<>>]
    /\ now = 0
    /\ pc = "idle"
    /\ transmitErrorCount = 0
    /\ receiveErrorCount = 0
    /\ crcErrorCount = 0
    /\ ackTimeoutCount = 0
    /\ currentSpreadingFactor = LORA_SPREADING_FACTOR
    /\ enqueued = MAX_QUEUE_SIZE + 1
    /\ work = MaxWork - BacklogWork
    /\ InitLink
    /\ InitPacketHandler
    /\ stream = <<>>
    /\ radioBuffer = <<>>
    /\ serialized = <<>>
    /\ serializedFrom = <<>>
    /\ InitProducer
    /\ InitBuffer

Next ==
    \/ \E seq \in SeqNums, priority \in 1 .. NUM_PRIORITIES :
           sendPacket(Packet(seq, PayloadLength), priority)
    \/ AdvanceTime
    \/ \E packet \in Incoming : processIncomingPacket(packet)
    \/ \E driverOk \in BOOLEAN : processQueue(driverOk)

Spec == Init /\ [][Next]_vars

SpecBacklog == InitBacklog /\ [][Next]_vars

(***************************************************************************)
(* The producers that go through the typed senders.  Data of the largest   *)
(* legal size and data one byte too long for serializePacket are handed    *)
(* in; the radio delivers nothing or an acknowledgement of number 0.       *)
(***************************************************************************)
SenderPayloadLengths ==
    {MAX_PAYLOAD_SIZE, MAX_PACKET_SIZE - SIZEOF_PACKET_HEADER - 1 - 2 - 2 + 1}

SenderIncoming ==
    {[type |-> "none"],
     [type |-> "ACK", seq |-> 0, payloadLength |-> 4, rssi |-> -100]}

NextSenders ==
    \/ \E length \in SenderPayloadLengths : sendTelemetry(length)
    \/ \E length \in SenderPayloadLengths : sendGPSData(length)
    \/ \E length \in SenderPayloadLengths : sendCameraThumbnail(length)
    \/ \E length \in SenderPayloadLengths : sendStatus(length)
    \/ \E length \in SenderPayloadLengths : sendEmergency(length)
    \/ AdvanceTime
    \/ \E packet \in SenderIncoming : processIncomingPacket(packet)
    \/ \E driverOk \in BOOLEAN : processQueue(driverOk)

SpecSenders == Init /\ [][NextSenders]_vars

(***************************************************************************)
(* Draining.  The producers have stopped after two typed sender calls;     *)
(* processQueue is called again and again, the driver accepts every frame  *)
(* it is handed, and the radio delivers nothing, an acknowledgement or a   *)
(* negative acknowledgement of number 0.  processQueue reads millis() only *)
(* to take the difference to the lastTransmitTime of a waiting head, so    *)
(* the clock is stepped only while the head waits and has not timed out:   *)
(* any later reading decides the same.                                     *)
(***************************************************************************)
DrainIncoming ==
    {[type |-> "none"],
     [type |-> "ACK", seq |-> 0, payloadLength |-> 4, rssi |-> -100],
     [type |-> "NACK", seq |-> 0, payloadLength |-> 3]}

DrainPriorities == {EMERGENCY, TELEMETRY, STATUS}

InitDrain ==
    /\ \E first, second \in SenderPayloadLengths, p1, p2 \in DrainPriorities :
           priorityQueues =
               addToQueueInternal(
                   addToQueueInternal([p \in Levels |-> <<>>],
                                      QueuedPacket(1, createPacket(first), p1)),
                   QueuedPacket(2, createPacket(second), p2))
    /\ now = 0
    /\ pc = "idle"
    /\ transmitErrorCount = 0
    /\ receiveErrorCount = 0
    /\ crcErrorCount = 0
    /\ ackTimeoutCount = 0
    /\ currentSpreadingFactor = LORA_SPREADING_FACTOR
    /\ enqueued = 2
    /\ work = 2 * EnqueueCost
    /\ InitLink
    /\ InitPacketHandler
    /\ stream = <<>>
    /\ radioBuffer = <<>>
    /\ serialized = <<>>
    /\ serializedFrom = <<>>
    /\ InitProducer
    /\ InitBuffer

Tick ==
    /\ getNextPacket(priorityQueues) # NULL
    /\ LET nextPacket == getNextPacket(priorityQueues)
           entry == priorityQueues[nextPacket[1]][nextPacket[2]]
       IN  entry.waitingForAck /\ ~ackTimedOut(entry, now)
    /\ now' = now + MsPerStep
    /\ UNCHANGED <<priorityQueues, pc, transmitErrorCount, receiveErrorCount,
                   crcErrorCount, ackTimeoutCount, currentSpreadingFactor, enqueued, work>>
    /\ UNCHANGED <<signalVars, adaptVars, packetHandlerVars, receiveVars, producerVars, bufferVars>>

PollRadio == \E packet \in DrainIncoming : processIncomingPacket(packet)

NextDrain ==
    \/ Tick
    \/ PollRadio
    \/ processQueue(TRUE)

\* Time keeps advancing and processQueue keeps being called: neither the
\* clock nor either half of processQueue is put off for ever.
SpecDrain ==
    /\ InitDrain
    /\ [][NextDrain]_vars
    /\ WF_vars(Tick)
    /\ WF_vars(PollRadio)
    /\ WF_vars(processQueue(TRUE))

(***************************************************************************)
(* The producer's memory.  createPacket stores the data pointer it is      *)
(* given in Packet::payload, sendPacket copies the Packet struct into the  *)
(* QueuedPacket, pointer included, and serializePacket reads               *)
(* payloadLength bytes through that pointer when the entry is              *)
(* transmitted.  The producer here owns one buffer: it fills it, passes it *)
(* to a typed sender, fills it again for the next packet, and may free     *)
(* it; every queued entry points at that buffer.  A read through the       *)
(* pointer after the buffer was freed yields whatever the memory holds     *)
(* then.                                                                   *)
(***************************************************************************)
ProducerData == {<<17, 34>>, <<51, 68>>}

ReadAfterFree == ProducerData \cup {<<0, 0>>}

\* memcpy(buffer + headerSize + 3, packet.payload, packet.payloadLength).
ReadPayload(memory, payloadLength) ==
    IF memory.state = "live" THEN {SubSeq(memory.bytes, 1, payloadLength)}
    ELSE {bytes \in ReadAfterFree : Len(bytes) = payloadLength}

\* The producer fills its buffer.
WriteBuffer(bytes) ==
    /\ producerBuffer.state \in {"none", "live"}
    /\ producerBuffer.bytes # bytes
    /\ producerBuffer' = [state |-> "live", bytes |-> bytes]
    /\ UNCHANGED <<loraVars, packetHandlerVars, receiveVars, handedIn, onAir, bufferVars>>

\* The producer frees its buffer.
ReleaseBuffer ==
    /\ producerBuffer.state = "live"
    /\ producerBuffer' = [producerBuffer EXCEPT !.state = "released"]
    /\ UNCHANGED <<loraVars, packetHandlerVars, receiveVars, handedIn, onAir, bufferVars>>

\* The producer passes its buffer to sendTelemetry, sendStatus ...
SendBuffer(priority) ==
    /\ producerBuffer.state = "live"
    /\ queuePacket(createPacket(Len(producerBuffer.bytes)), priority)
    /\ handedIn' = Append(handedIn, producerBuffer.bytes)
    /\ UNCHANGED <<producerBuffer, onAir, bufferVars>>

\* The second half of processQueue, with the payload bytes serializePacket
\* copied into the frame the driver accepted.
ProcessQueue(driverOk) ==
    /\ transmitNext(driverOk)
    /\ LET sent == TransmittedUids(priorityQueues, priorityQueues')
       IN  IF sent = {} THEN UNCHANGED onAir
           ELSE \E uid \in sent :
                    \E payload \in ReadPayload(producerBuffer,
                                               EntryOf(priorityQueues, uid).payloadLength) :
                        onAir' = [uid |-> uid, payload |-> payload]
    /\ UNCHANGED <<producerBuffer, handedIn, bufferVars>>

ProducerPriorities == {TELEMETRY, STATUS}

ProducerIncoming ==
    {[type |-> "none"],
     [type |-> "ACK", seq |-> 0, payloadLength |-> 4, rssi |-> -100]}

NextProducer ==
    \/ \E bytes \in ProducerData : WriteBuffer(bytes)
    \/ ReleaseBuffer
    \/ \E priority \in ProducerPriorities : SendBuffer(priority)
    \/ AdvanceTime
    \/ \E packet \in ProducerIncoming : processIncomingPacket(packet)
    \/ \E driverOk \in BOOLEAN : ProcessQueue(driverOk)

SpecProducer == Init /\ [][NextProducer]_vars

(***************************************************************************)
(* Spreading factor and transmit power.  setSpreadingFactor writes the     *)
(* configured value (spreadingFactor) and the value in use                 *)
(* (currentSpreadingFactor) together, and setTxPower does the same for the *)
(* power, so the two members always hold one value: one variable stands    *)
(* for each pair.  The snr argument of adaptTransmissionSettings is only   *)
(* printed.                                                                *)
(***************************************************************************)
setTxPower(current, power) ==
    IF power < 2 \/ power > 20 THEN current ELSE power

\* What adaptTransmissionSettings is called with: the int8_t range at its
\* ends and on both sides of the two thresholds.
AdaptRssi ==
    {-128, ADAPTIVE_SF_LOW_THRESHOLD - 1, ADAPTIVE_SF_LOW_THRESHOLD,
     ADAPTIVE_SF_HIGH_THRESHOLD, ADAPTIVE_SF_HIGH_THRESHOLD + 1, 127}

\* What setSpreadingFactor is called with.
SpreadingFactorArgs == 5 .. 13

AdaptTransmissionSettings(rssi) ==
    LET adapted == adaptTransmissionSettings(currentSpreadingFactor, rssi)
    IN  /\ rssi > ADAPTIVE_SF_HIGH_THRESHOLD => Len(run) < MaxRun + 1
        /\ currentSpreadingFactor' = adapted
        /\ lastCall' = "adaptTransmissionSettings"
        /\ adaptedValue' =
               IF adapted # currentSpreadingFactor THEN adapted ELSE adaptedValue
        /\ run' = IF rssi > ADAPTIVE_SF_HIGH_THRESHOLD
                  THEN (IF run = <<>> THEN <<currentSpreadingFactor>> ELSE run)
                           \o <<adapted>>
                  ELSE <<>>
        /\ UNCHANGED <<queueVars, signalVars, currentTxPower, packetHandlerVars, receiveVars, producerVars, bufferVars>>

SetSpreadingFactor(sf) ==
    /\ currentSpreadingFactor' = setSpreadingFactor(currentSpreadingFactor, sf)
    /\ lastCall' = "setSpreadingFactor"
    /\ adaptedValue' = 0
    /\ run' = <<>>
    /\ UNCHANGED <<queueVars, signalVars, currentTxPower, packetHandlerVars, receiveVars, producerVars, bufferVars>>

enterLowPowerMode ==
    /\ currentTxPower' = setTxPower(currentTxPower, 10)
    /\ currentSpreadingFactor' = setSpreadingFactor(currentSpreadingFactor, 12)
    /\ lastCall' = "enterLowPowerMode"
    /\ run' = <<>>
    /\ UNCHANGED <<queueVars, signalVars, adaptedValue, packetHandlerVars, receiveVars, producerVars, bufferVars>>

exitLowPowerMode ==
    /\ currentTxPower' = setTxPower(currentTxPower, LORA_TX_POWER)
    /\ currentSpreadingFactor' =
           setSpreadingFactor(currentSpreadingFactor, LORA_SPREADING_FACTOR)
    /\ lastCall' = "exitLowPowerMode"
    /\ adaptedValue' = 0
    /\ run' = <<>>
    /\ UNCHANGED <<queueVars, signalVars, packetHandlerVars, receiveVars, producerVars, bufferVars>>

NextAdaptive ==
    \/ \E rssi \in AdaptRssi : AdaptTransmissionSettings(rssi)
    \/ \E sf \in SpreadingFactorArgs : SetSpreadingFactor(sf)
    \/ enterLowPowerMode
    \/ exitLowPowerMode

SpecAdaptive == Init /\ [][NextAdaptive]_vars

(***************************************************************************)
(* The sample windows.  rssiHistory and snrHistory are rings of            *)
(* RSSI_HISTORY_SIZE int8_t slots, zeroed by the constructor and by        *)
(* resetStatistics; updateSignalQuality overwrites the slot at the write   *)
(* index.  The averages add up the slots that are not 0 (the sum is an     *)
(* int32_t, the quotient is truncated toward zero and always fits the      *)
(* int8_t that is returned).                                               *)
(***************************************************************************)
\* C++ integer division for a positive divisor.
Quotient(a, b) == IF a >= 0 THEN a \div b ELSE -((-a) \div b)

RECURSIVE SumOf(_, _)
SumOf(f, set) ==
    IF set = {} THEN 0
    ELSE LET i == CHOOSE j \in set : TRUE
         IN  f[i] + SumOf(f, set \ {i})

getAverage(history) ==
    LET filled == {i \in 0 .. (RSSI_HISTORY_SIZE - 1) : history[i] # 0}
        sum == SumOf(history, filled)
        count == Cardinality(filled)
    IN  IF count > 0 THEN Quotient(sum, count) ELSE -128

getAverageRSSI == getAverage(rssiHistory)

getAverageSNR == getAverage(snrHistory)

\* The <<rssi, snr>> readings handed to updateSignalQuality.
Samples == {<<-90, 7>>, <<-45, 0>>, <<0, -3>>}

\* Lets the write indices stop at the last slot.
updateSignalQualityNoWrap(rssi, snr) ==
    /\ Len(recorded) < MaxSamples
    /\ rssiHistory' = [rssiHistory EXCEPT ![rssiIndex] = rssi]
    /\ rssiIndex' = IF rssiIndex + 1 < RSSI_HISTORY_SIZE THEN rssiIndex + 1 ELSE rssiIndex
    /\ snrHistory' = [snrHistory EXCEPT ![snrIndex] = snr]
    /\ snrIndex' = IF snrIndex + 1 < RSSI_HISTORY_SIZE THEN snrIndex + 1 ELSE snrIndex
    /\ lastRssi' = rssi
    /\ lastSnr' = snr
    /\ recorded' = Append(recorded, <<rssi, snr>>)
    /\ UNCHANGED <<queueVars, currentSpreadingFactor, adaptVars, packetHandlerVars, receiveVars, producerVars, bufferVars>>

updateSignalQuality(rssi, snr) ==
    /\ Len(recorded) < MaxSamples
    /\ rssiHistory' = [rssiHistory EXCEPT ![rssiIndex] = rssi]
    /\ rssiIndex' = (rssiIndex + 1) % RSSI_HISTORY_SIZE
    /\ snrHistory' = [snrHistory EXCEPT ![snrIndex] = snr]
    /\ snrIndex' = (snrIndex + 1) % RSSI_HISTORY_SIZE
    /\ lastRssi' = rssi
    /\ lastSnr' = snr
    /\ recorded' = Append(recorded, <<rssi, snr>>)
    /\ UNCHANGED <<queueVars, currentSpreadingFactor, adaptVars, packetHandlerVars, receiveVars, producerVars, bufferVars>>

\* A variant that also puts the spreading factor back to its default.
resetStatisticsAndSettings ==
    /\ transmitErrorCount' = 0
    /\ receiveErrorCount' = 0
    /\ crcErrorCount' = 0
    /\ ackTimeoutCount' = 0
    /\ rssiHistory' = [i \in 0 .. (RSSI_HISTORY_SIZE - 1) |-> 0]
    /\ snrHistory' = [i \in 0 .. (RSSI_HISTORY_SIZE - 1) |-> 0]
    /\ rssiIndex' = 0
    /\ snrIndex' = 0
    /\ recorded' = <<>>
    /\ currentSpreadingFactor' = LORA_SPREADING_FACTOR
    /\ UNCHANGED <<priorityQueues, now, pc, enqueued, work,
                   lastRssi, lastSnr, adaptVars, packetHandlerVars, receiveVars, producerVars, bufferVars>>

resetStatistics ==
    /\ transmitErrorCount' = 0
    /\ receiveErrorCount' = 0
    /\ crcErrorCount' = 0
    /\ ackTimeoutCount' = 0
    /\ rssiHistory' = [i \in 0 .. (RSSI_HISTORY_SIZE - 1) |-> 0]
    /\ snrHistory' = [i \in 0 .. (RSSI_HISTORY_SIZE - 1) |-> 0]
    /\ rssiIndex' = 0
    /\ snrIndex' = 0
    /\ recorded' = <<>>
    /\ UNCHANGED <<priorityQueues, now, pc, enqueued, work, currentSpreadingFactor,
                   lastRssi, lastSnr, adaptVars, packetHandlerVars, receiveVars, producerVars, bufferVars>>

NextSignal ==
    \/ \E sample \in Samples : updateSignalQuality(sample[1], sample[2])
    \/ resetStatistics

SpecSignal == Init /\ [][NextSignal]_vars

(***************************************************************************)
(* PacketHandler: checksums and packet assembly.  A byte is a number in    *)
(* 0 .. 255 and a buffer a sequence of bytes; the byte at offset o of the  *)
(* code is element o + 1 of the sequence.                                  *)
(***************************************************************************)
\* a ^ b on unsigned values of the given width.
RECURSIVE XorBits(_, _, _)
XorBits(a, b, width) ==
    IF width = 0 THEN 0
    ELSE (((a % 2) + (b % 2)) % 2) + 2 * XorBits(a \div 2, b \div 2, width - 1)

\* data with one bit inverted; bit 0 is the lowest bit of the first byte.
FlipBit(data, bit) ==
    [data EXCEPT ![(bit \div 8) + 1] = XorBits(@, 2 ^ (bit % 8), 8)]

BitsOf(data) == 0 .. (8 * Len(data) - 1)

\* The inner loop of calculateCRC8 with the feedback left out: crc <<= 1 on
\* both branches.
RECURSIVE crc8ShiftNoFeedback(_, _)
crc8ShiftNoFeedback(crc, j) ==
    IF j = 0 THEN crc
    ELSE IF crc >= 128
         THEN crc8ShiftNoFeedback((crc * 2) % 256, j - 1)
         ELSE crc8ShiftNoFeedback((crc * 2) % 256, j - 1)

\* The inner loop of calculateCRC8: j more shifts of the uint8_t crc.
RECURSIVE crc8Shift(_, _)
crc8Shift(crc, j) ==
    IF j = 0 THEN crc
    ELSE IF crc >= 128
         THEN crc8Shift(XorBits((crc * 2) % 256, CRC8_POLYNOMIAL, 8), j - 1)
         ELSE crc8Shift((crc * 2) % 256, j - 1)

RECURSIVE crc8From(_, _, _)
crc8From(data, i, crc) ==
    IF i > Len(data) THEN crc
    ELSE crc8From(data, i + 1, crc8Shift(XorBits(crc, data[i], 8), 8))

\* calculateCRC8(data, length), data standing for the length bytes read.
calculateCRC8(data) == crc8From(data, 1, 0)

\* The inner loop of calculateCRC16: j more shifts of the uint16_t crc.
RECURSIVE crc16Shift(_, _)
crc16Shift(crc, j) ==
    IF j = 0 THEN crc
    ELSE IF crc >= 32768
         THEN crc16Shift(XorBits((crc * 2) % 65536, CRC16_POLYNOMIAL, 16), j - 1)
         ELSE crc16Shift((crc * 2) % 65536, j - 1)

RECURSIVE crc16From(_, _, _)
crc16From(data, i, crc) ==
    IF i > Len(data) THEN crc
    ELSE crc16From(data, i + 1, crc16Shift(XorBits(crc, data[i] * 256, 16), 8))

\* calculateCRC16(data, length).
calculateCRC16(data) == crc16From(data, 1, 0)

\* uint16ToBytes: high byte first.
uint16ToBytes(value) == <<value \div 256, value % 256>>

\* assemblePacket.  The block malloc returns is not initialised: it holds
\* whatever was there, here the byte stale in every position.  The code
\* writes offsets 0 .. 5 (sync, type, sequence number, length), computes the
\* header CRC over sizeof(PacketHeader) - 1 = 7 bytes, of which offset 6 has
\* not been written yet, stores it at offset 6, and goes on from offset 7
\* with payload, payload CRC and end bytes: 11 + payloadSize bytes are
\* written of the 12 + payloadSize allocated, and the last one keeps what
\* malloc left in it.  NULL stands for the return value false.
assemblePacket(type, sequence, payload, stale) ==
    LET payloadSize == Len(payload)
        packetSize == SIZEOF_PACKET_HEADER + payloadSize + SIZEOF_PACKET_FOOTER
        fields == <<PACKET_START_BYTE1, PACKET_START_BYTE2, type, sequence>>
                      \o uint16ToBytes(payloadSize)
        headerCRC == calculateCRC8(fields \o <<stale>>)
        payloadCRC == calculateCRC16(payload)
        written == fields \o <<headerCRC>> \o payload \o uint16ToBytes(payloadCRC)
                       \o <<PACKET_END_BYTE1, PACKET_END_BYTE2>>
    IN  IF packetSize > MAX_PACKET_SIZE THEN NULL
        ELSE IF packetSize > Len(written) THEN Append(written, stale)
        ELSE written

\* A read at the given offset; a read past the end of the buffer yields
\* whatever lies behind it.
ByteAt(packet, offset, beyond) ==
    IF offset < Len(packet) THEN packet[offset + 1] ELSE beyond

BytesAt(packet, offset, count, beyond) ==
    [i \in 1 .. count |-> ByteAt(packet, offset + i - 1, beyond)]

\* header->payloadLength and footer->crc16 are uint16_t members read in
\* place by a little-endian CPU: low byte first.
uint16At(packet, offset, beyond) ==
    ByteAt(packet, offset, beyond) + 256 * ByteAt(packet, offset + 1, beyond)

\* verifyCRC: header CRC over offsets 0 .. 6 against header->crc8 (offset
\* 6), payload CRC over header->payloadLength bytes from offset
\* sizeof(PacketHeader) against footer->crc16 behind them.
verifyCRC(packet, beyond) ==
    IF Len(packet) < SIZEOF_PACKET_HEADER + SIZEOF_PACKET_FOOTER THEN FALSE
    ELSE IF calculateCRC8(SubSeq(packet, 1, SIZEOF_PACKET_HEADER - 1)) # packet[7] THEN FALSE
    ELSE LET payloadSize == uint16At(packet, 4, beyond)
         IN  calculateCRC16(BytesAt(packet, SIZEOF_PACKET_HEADER, payloadSize, beyond))
                 = uint16At(packet, SIZEOF_PACKET_HEADER + payloadSize, beyond)

\* validatePacket: minimum length, start bytes at offsets 0 and 1, end bytes
\* at offsets length - 2 and length - 1, then verifyCRC.
validatePacket(packet, beyond) ==
    IF Len(packet) < SIZEOF_PACKET_HEADER + SIZEOF_PACKET_FOOTER THEN FALSE
    ELSE IF packet[1] # PACKET_START_BYTE1 \/ packet[2] # PACKET_START_BYTE2 THEN FALSE
    ELSE IF \/ packet[Len(packet) - 1] # PACKET_END_BYTE1
            \/ packet[Len(packet)] # PACKET_END_BYTE2 THEN FALSE
    ELSE verifyCRC(packet, beyond)

\* disassemblePacket: what it hands back; ok is the return value, and the
\* outputs are not written when validatePacket fails.  The sequence number
\* is not among the outputs.
disassemblePacket(packet, beyond) ==
    IF ~validatePacket(packet, beyond) THEN [ok |-> FALSE]
    ELSE [ok |-> TRUE,
          type |-> packet[3],
          payloadSize |-> uint16At(packet, 4, beyond),
          payload |-> BytesAt(packet, SIZEOF_PACKET_HEADER,
                              uint16At(packet, 4, beyond), beyond)]

\* The arguments assemblePacket is called with.
PacketTypes == {1, 6, 255}           \* HEARTBEAT, ACK, EMERGENCY

SequenceNumbers == {0, 255}

PayloadBytes == {0, 255}

StaleBytes == {0, 10}

RECURSIVE SeqsUpTo(_, _)
SeqsUpTo(set, n) ==
    IF n = 0 THEN {<<>>}
    ELSE LET shorter == SeqsUpTo(set, n - 1)
         IN  shorter \cup {Append(sq, b) : sq \in shorter, b \in set}

Payloads == SeqsUpTo(PayloadBytes, MaxPayloadLen)

setSequenceNumber(seq) ==
    /\ currentSequenceNumber' = seq
    /\ UNCHANGED <<loraVars, packetData, assembled, receiveVars, producerVars, bufferVars, framerVars>>

\* A call of assemblePacket (from createPacket or sendUrgentPacket) that
\* returns true; the buffer it hands back is kept.
AssemblePacket(type, payload, stale) ==
    /\ \E buffer \in {assemblePacket(type, currentSequenceNumber, payload, stale)} :
           /\ buffer # NULL
           /\ packetData' = buffer
    /\ assembled' = [type |-> type, sequence |-> currentSequenceNumber,
                      payload |-> payload, stale |-> stale]
    /\ UNCHANGED <<loraVars, currentSequenceNumber, receiveVars, producerVars, bufferVars, framerVars>>

NextCodec ==
    \/ \E seq \in SequenceNumbers : setSequenceNumber(seq)
    \/ \E type \in PacketTypes, payload \in Payloads, stale \in StaleBytes :
           AssemblePacket(type, payload, stale)

SpecCodec == Init /\ [][NextCodec]_vars

(***************************************************************************)
(* The receive path of LoRaManager on the bytes of a radio packet:         *)
(* sizeof(PacketHeader) header bytes, type, sequence number (high byte     *)
(* first), payload, CRC16 (high byte first).                               *)
(***************************************************************************)
\* The inner loop of LoRaManager::calculateCRC16: j more shifts.
RECURSIVE LoRaManager_crc16Shift(_, _)
LoRaManager_crc16Shift(crc, j) ==
    IF j = 0 THEN crc
    ELSE IF crc % 2 = 1
         THEN LoRaManager_crc16Shift(XorBits(crc \div 2, CRC16_REFLECTED, 16), j - 1)
         ELSE LoRaManager_crc16Shift(crc \div 2, j - 1)

\* The outer loop of LoRaManager::calculateCRC16 over data[lo .. hi], in
\* order: the first half of the bytes, then the second half from the value
\* the first half left.
RECURSIVE LoRaManager_crc16From(_, _, _, _)
LoRaManager_crc16From(data, lo, hi, crc) ==
    IF lo > hi THEN crc
    ELSE IF lo = hi THEN LoRaManager_crc16Shift(XorBits(crc, data[lo], 16), 8)
    ELSE CHOOSE final \in
             {LoRaManager_crc16From(data, (lo + hi) \div 2 + 1, hi, next) :
              next \in {LoRaManager_crc16From(data, lo, (lo + hi) \div 2, crc)}} : TRUE

\* LoRaManager::calculateCRC16(data, length): initial value 0xFFFF.
LoRaManager_calculateCRC16(data) == LoRaManager_crc16From(data, 1, Len(data), 65535)

\* static_cast<int8_t> of a byte.
int8(byte) == IF byte >= 128 THEN byte - 256 ELSE byte

\* deserializePacket(buffer, length, packet): NULL stands for false.
deserializePacket(buffer) ==
    IF Len(buffer) < SIZEOF_PACKET_HEADER + 5 THEN NULL
    ELSE [header |-> SubSeq(buffer, 1, SIZEOF_PACKET_HEADER),
          type |-> buffer[SIZEOF_PACKET_HEADER + 1],
          sequenceNumber |-> buffer[SIZEOF_PACKET_HEADER + 2] * 256
                                 + buffer[SIZEOF_PACKET_HEADER + 3],
          payload |-> SubSeq(buffer, SIZEOF_PACKET_HEADER + 4, Len(buffer) - 2),
          crc16 |-> buffer[Len(buffer) - 1] * 256 + buffer[Len(buffer)]]

\* LoRaManager::validatePacket(packet): the CRC over header, type, sequence
\* number and payload against packet.crc16.
LoRaManager_validatePacket(packet) ==
    LoRaManager_calculateCRC16(
        packet.header
            \o <<packet.type, packet.sequenceNumber \div 256, packet.sequenceNumber % 256>>
            \o packet.payload) = packet.crc16

\* receivePacket as processIncomingPacket sees it: nothing there, a packet
\* deserializePacket rejects, one validatePacket rejects, or a valid one
\* with the fields handleAck and handleNack read from its payload (0 where
\* the payload is too short, and then not read).
receivePacket(buffer) ==
    IF Len(buffer) = 0 THEN [type |-> "none"]
    ELSE IF deserializePacket(buffer) = NULL THEN [type |-> "undecodable"]
    ELSE LET packet == deserializePacket(buffer)
             payload == packet.payload
             at(i) == IF i <= Len(payload) THEN payload[i] ELSE 0
         IN  IF ~LoRaManager_validatePacket(packet) THEN [type |-> "badcrc"]
             ELSE IF packet.type = PACKET_TYPE_ACK
                  THEN [type |-> "ACK", seq |-> at(1) * 256 + at(2),
                        payloadLength |-> Len(payload), rssi |-> int8(at(4))]
             ELSE IF packet.type = PACKET_TYPE_NACK
                  THEN [type |-> "NACK", seq |-> at(1) * 256 + at(2),
                        payloadLength |-> Len(payload)]
             ELSE [type |-> "data"]

\* processIncomingPacket on the bytes the radio holds.
ReceivePacket(buffer) ==
    \E packet \in {receivePacket(buffer)} :
        /\ dispatchIncoming(packet)
        /\ radioBuffer' = buffer
        /\ UNCHANGED <<serialized, serializedFrom, producerVars, bufferVars>>

\* What the radio may hold.  The intact packets carry the CRC the sender
\* computes (calculatePacketCRC, the same computation as calculateCRC16):
\* ACKs with and without the RSSI byte, NACKs, a data packet.  The damaged
\* ones are intact packets with one bit inverted on the way: the lowest bit
\* of the type (ACK <-> NACK), of the acknowledged sequence number, of the
\* CRC.  Then nothing at all, and a packet too short for deserializePacket.
RadioHeader == <<1, 1, 0, 0, 0, 0, 0, 0>>

RadioRssiBytes == {196, 136}          \* -60 and -120 dBm as payload[3]

WithCRC(body) ==
    body \o <<LoRaManager_calculateCRC16(body) \div 256,
              LoRaManager_calculateCRC16(body) % 256>>

IntactPackets ==
    {WithCRC(RadioHeader \o <<PACKET_TYPE_ACK, 0, 0>> \o <<0, seq, 2, rssi>>) :
         seq \in SeqNums, rssi \in RadioRssiBytes}
    \cup {WithCRC(RadioHeader \o <<type, 0, 0>> \o <<0, seq, 2>>) :
              seq \in SeqNums, type \in {PACKET_TYPE_ACK, PACKET_TYPE_NACK}}
    \cup {WithCRC(RadioHeader \o <<2, 0, 0>>)}

DamagedBits(packet) ==
    {8 * SIZEOF_PACKET_HEADER, 8 * (SIZEOF_PACKET_HEADER + 4), 8 * (Len(packet) - 1)}

DamagedPackets ==
    {FlipBit(packet, bit) : bit \in {8 * SIZEOF_PACKET_HEADER}, packet \in IntactPackets}
    \cup UNION {{FlipBit(packet, bit) : bit \in DamagedBits(packet)} :
                   packet \in {p \in IntactPackets : Len(p) > SIZEOF_PACKET_HEADER + 5}}

RadioPackets ==
    IntactPackets \cup DamagedPackets
        \cup {<<>>, SubSeq(RadioHeader, 1, SIZEOF_PACKET_HEADER) \o <<PACKET_TYPE_ACK, 0, 0, 0>>}

\* The state after sendPacket for a telemetry packet numbered 0 and a status
\* packet numbered 1, before the first processQueue.
InitReceive ==
    /\ priorityQueues =
           [p \in Levels |->
               IF p = TELEMETRY - 1
               THEN <<QueuedPacket(1, Packet(0, PayloadLength), TELEMETRY)>>
               ELSE IF p = STATUS - 1
               THEN <<QueuedPacket(2, Packet(MaxSeq, PayloadLength), STATUS)>>
               ELSE <<>>]
    /\ now = 0
    /\ pc = "idle"
    /\ transmitErrorCount = 0
    /\ receiveErrorCount = 0
    /\ crcErrorCount = 0
    /\ ackTimeoutCount = 0
    /\ currentSpreadingFactor = LORA_SPREADING_FACTOR
    /\ enqueued = 2
    /\ work = MaxWork - ReceiveWork
    /\ InitLink
    /\ InitPacketHandler
    /\ stream = <<>>
    /\ radioBuffer = <<>>
    /\ serialized = <<>>
    /\ serializedFrom = <<>>
    /\ InitProducer
    /\ InitBuffer

NextReceive ==
    \/ \E buffer \in RadioPackets : ReceivePacket(buffer)
    \/ processQueue(TRUE)

SpecReceive == InitReceive /\ [][NextReceive]_vars

(***************************************************************************)
(* The transmit side of the radio frame: serializePacket as transmitPacket *)
(* calls it, on packets given by the first sizeof(PacketHeader) bytes of   *)
(* their header, type, sequence number and payload.                        *)
(***************************************************************************)
\* Starts from 0 where the code starts from 0xFFFF.
calculatePacketCRCFromZero(packet) ==
    LoRaManager_crc16From(
        packet.header
            \o <<packet.type, (packet.sequenceNumber \div 256) % 256,
                 packet.sequenceNumber % 256>>
            \o packet.payload,
        1, SIZEOF_PACKET_HEADER + 3 + Len(packet.payload), 0)

\* The shifts of calculatePacketCRC: j more for the byte at hand.
RECURSIVE calculatePacketCRCShift(_, _)
calculatePacketCRCShift(crc, j) ==
    IF j = 0 THEN crc
    ELSE IF crc % 2 = 1
         THEN calculatePacketCRCShift(XorBits(crc \div 2, CRC16_REFLECTED, 16), j - 1)
         ELSE calculatePacketCRCShift(crc \div 2, j - 1)

\* The loop of calculatePacketCRC over tempBuffer[lo .. hi], in order: the
\* first half of the bytes, then the second half from the value the first
\* half left.
RECURSIVE calculatePacketCRCFrom(_, _, _, _)
calculatePacketCRCFrom(tempBuffer, lo, hi, crc) ==
    IF lo > hi THEN crc
    ELSE IF lo = hi THEN calculatePacketCRCShift(XorBits(crc, tempBuffer[lo], 16), 8)
    ELSE CHOOSE final \in
             {calculatePacketCRCFrom(tempBuffer, (lo + hi) \div 2 + 1, hi, next) :
              next \in {calculatePacketCRCFrom(tempBuffer, lo, (lo + hi) \div 2, crc)}} : TRUE

\* calculatePacketCRC(packet): header, type, sequence number high byte
\* first, payload, from the initial value 0xFFFF.
calculatePacketCRC(packet) ==
    calculatePacketCRCFrom(
        packet.header
            \o <<packet.type, (packet.sequenceNumber \div 256) % 256,
                 packet.sequenceNumber % 256>>
            \o packet.payload,
        1, SIZEOF_PACKET_HEADER + 3 + Len(packet.payload), 65535)

\* serializePacket(packet, buffer, length): the length bytes written to
\* buffer; NULL stands for false.
serializePacketBytes(packet) ==
    LET totalSize == SIZEOF_PACKET_HEADER + 1 + 2 + Len(packet.payload) + 2
    IN  IF totalSize > MAX_PACKET_SIZE THEN NULL
        ELSE CHOOSE buffer \in
                 {packet.header
                      \o <<packet.type, (packet.sequenceNumber \div 256) % 256,
                           packet.sequenceNumber % 256>>
                      \o packet.payload
                      \o <<(crc \div 256) % 256, crc % 256>> :
                  crc \in {calculatePacketCRC(packet)}} : TRUE

\* The packets handed to transmitPacket: two headers, three types, sequence
\* numbers with a low byte, a high byte and both, payloads of 0 ..
\* MaxLinkPayload bytes, the longest payload serializePacket accepts and
\* one a byte longer.
LinkHeaders == {<<1, 1, 0, 0, 0, 0, 0, 0>>, <<1, 2, 128, 3, 255, 255, 255, 255>>}

LinkTypes == {2, PACKET_TYPE_ACK, 255}

LinkSequenceNumbers == {0, 255, 256, 65535}

LongestPayload == [i \in 1 .. (MAX_PACKET_SIZE - SIZEOF_PACKET_HEADER - 5) |-> i % 256]

LinkPayloads ==
    SeqsUpTo(PayloadBytes, MaxLinkPayload) \cup {LongestPayload, Append(LongestPayload, 0)}

LinkPackets ==
    [header : LinkHeaders, type : LinkTypes, sequenceNumber : LinkSequenceNumbers,
     payload : LinkPayloads]

\* A manager right after construction, and the packet transmitPacket is
\* about to be called with.
InitTransmit ==
    /\ priorityQueues = [p \in Levels |-> <<>>]
    /\ now = 0
    /\ pc = "idle"
    /\ transmitErrorCount = 0
    /\ receiveErrorCount = 0
    /\ crcErrorCount = 0
    /\ ackTimeoutCount = 0
    /\ currentSpreadingFactor = LORA_SPREADING_FACTOR
    /\ enqueued = 0
    /\ work = 0
    /\ InitLink
    /\ InitPacketHandler
    /\ stream = <<>>
    /\ radioBuffer = <<>>
    /\ serialized = <<>>
    /\ serializedFrom \in LinkPackets
    /\ InitProducer
    /\ InitBuffer

\* transmitPacket(packet), as far as the static buffer goes: a failed
\* serializePacket leaves it as it was.
TransmitPacket ==
    /\ serialized = <<>>
    /\ \E buffer \in {serializePacketBytes(serializedFrom)} :
           IF buffer = NULL THEN UNCHANGED serialized ELSE serialized' = buffer
    /\ UNCHANGED <<loraVars, packetHandlerVars, radioBuffer, serializedFrom, producerVars, bufferVars>>

NextLink == TransmitPacket

SpecLink == InitTransmit /\ [][NextLink]_vars

(***************************************************************************)
(* The framer of PacketHandler: processIncomingData hands the bytes one by *)
(* one to processReceivedByte.  A framer state is the record of the        *)
(* members the receive path reads and writes, with the buffers accepted so *)
(* far and the return value of the last call.                              *)
(***************************************************************************)
FramerState ==
    [receiveBuffer |-> receiveBuffer, inPacket |-> inPacket,
     expectedPayloadSize |-> expectedPayloadSize, crcErrors |-> crcErrors,
     packetsReceived |-> packetsReceived, emitted |-> emitted, result |-> FALSE]

\* resetReceiveState (receiveIndex is the length of receiveBuffer here).
resetReceiveState(s) ==
    [s EXCEPT !.receiveBuffer = <<>>, !.inPacket = FALSE, !.expectedPayloadSize = 0]

\* validateHeader: the type within HEARTBEAT .. DEBUG and the length within
\* MAX_PAYLOAD_SIZE.  The header CRC is not looked at.
validateHeader(packetType, payloadLength) ==
    /\ packetType >= PACKET_TYPE_HEARTBEAT
    /\ packetType <= PACKET_TYPE_DEBUG
    /\ payloadLength <= MAX_PAYLOAD_SIZE

\* processCompletePacket: verifyCRC counts a CRC error of its own before
\* processCompletePacket counts one; an accepted packet is counted by
\* packetsReceived++ and once more by updateStatistics(type, false).
processCompletePacket(s) ==
    IF ~verifyCRC(s.receiveBuffer, 0)
    THEN [s EXCEPT !.crcErrors = @ + 2, !.result = FALSE]
    ELSE [s EXCEPT !.packetsReceived = @ + 2,
                   !.emitted = Append(@, s.receiveBuffer),
                   !.result = TRUE]

\* A variant that takes the header as it comes, without validateHeader and
\* without the test of the total size.
processReceivedByteAnyHeader(s, byte) ==
    IF ~s.inPacket
    THEN IF Len(s.receiveBuffer) = 0 /\ byte = PACKET_START_BYTE1
         THEN [s EXCEPT !.receiveBuffer = <<byte>>, !.result = FALSE]
         ELSE IF Len(s.receiveBuffer) = 1 /\ byte = PACKET_START_BYTE2
         THEN [s EXCEPT !.receiveBuffer = Append(@, byte), !.inPacket = TRUE,
                        !.result = FALSE]
         ELSE [s EXCEPT !.receiveBuffer = <<>>, !.result = FALSE]
    ELSE LET buffer == Append(s.receiveBuffer, byte)
             atHeader == Len(buffer) = SIZEOF_PACKET_HEADER
             expected == IF atHeader THEN uint16At(buffer, 4, 0) ELSE s.expectedPayloadSize
             headed == [s EXCEPT !.receiveBuffer = buffer, !.result = FALSE,
                                 !.expectedPayloadSize = expected]
         IN  IF Len(buffer) >= SIZEOF_PACKET_HEADER + expected + SIZEOF_PACKET_FOOTER
             THEN resetReceiveState(processCompletePacket(headed))
             ELSE headed

processReceivedByte(s, byte) ==
    IF ~s.inPacket
    THEN IF Len(s.receiveBuffer) = 0 /\ byte = PACKET_START_BYTE1
         THEN [s EXCEPT !.receiveBuffer = <<byte>>, !.result = FALSE]
         ELSE IF Len(s.receiveBuffer) = 1 /\ byte = PACKET_START_BYTE2
         THEN [s EXCEPT !.receiveBuffer = Append(@, byte), !.inPacket = TRUE,
                        !.result = FALSE]
         ELSE [s EXCEPT !.receiveBuffer = <<>>, !.result = FALSE]
    ELSE LET buffer == Append(s.receiveBuffer, byte)
             atHeader == Len(buffer) = SIZEOF_PACKET_HEADER
             payloadLength == uint16At(buffer, 4, 0)
             stored == [s EXCEPT !.receiveBuffer = buffer, !.result = FALSE]
         IN  IF atHeader /\ ~validateHeader(buffer[3], payloadLength)
             THEN [resetReceiveState(stored) EXCEPT !.crcErrors = @ + 1]
             ELSE IF atHeader /\ SIZEOF_PACKET_HEADER + payloadLength + SIZEOF_PACKET_FOOTER
                                    > SIZEOF_RECEIVE_BUFFER
             THEN resetReceiveState(stored)
             ELSE LET expected == IF atHeader THEN payloadLength ELSE s.expectedPayloadSize
                      headed == [stored EXCEPT !.expectedPayloadSize = expected]
                  IN  IF Len(buffer) >= SIZEOF_PACKET_HEADER + expected + SIZEOF_PACKET_FOOTER
                      THEN resetReceiveState(processCompletePacket(headed))
                      ELSE headed

\* The loop of processIncomingData over data[i .. length - 1];
\* packetProcessed is the return value in the making.
RECURSIVE processIncomingDataFrom(_, _, _, _)
processIncomingDataFrom(s, data, i, packetProcessed) ==
    IF i > Len(data) THEN [s EXCEPT !.result = packetProcessed]
    ELSE CHOOSE final \in
             {processIncomingDataFrom(next, data, i + 1, packetProcessed \/ next.result) :
                  next \in {processReceivedByte(s, data[i])}} : TRUE

\* Starts every call from a reset receive state.
processIncomingDataRestarts(s, data) ==
    IF Len(data) = 0 THEN [s EXCEPT !.result = FALSE]
    ELSE processIncomingDataFrom(resetReceiveState(s), data, 1, FALSE)

processIncomingData(s, data) ==
    IF Len(data) = 0 THEN [s EXCEPT !.result = FALSE]
    ELSE processIncomingDataFrom(s, data, 1, FALSE)

\* One call of processIncomingData with the next length bytes of the stream.
ProcessIncomingData(length) ==
    /\ fed + length <= Len(stream)
    /\ \E after \in {processIncomingData(FramerState, SubSeq(stream, fed + 1, fed + length))} :
           /\ receiveBuffer' = after.receiveBuffer
           /\ inPacket' = after.inPacket
           /\ expectedPayloadSize' = after.expectedPayloadSize
           /\ crcErrors' = after.crcErrors
           /\ packetsReceived' = after.packetsReceived
           /\ emitted' = after.emitted
    /\ fed' = fed + length
    /\ lastChunk' = length
    /\ UNCHANGED <<loraVars, receiveVars, producerVars, bufferVars, currentSequenceNumber, packetData,
                   assembled, stream>>

\* The checksum bytes verifyCRC accepts behind the six header fields: it
\* computes the CRC over sizeof(PacketHeader) - 1 = 7 bytes, the checksum
\* byte among them, and compares with that byte.
AcceptedChecksums(fields) ==
    {c \in 0 .. 255 : calculateCRC8(fields \o <<c>>) = c}

\* A frame as the receive path reads it: the length and the payload CRC low
\* byte first, the payload from offset sizeof(PacketHeader), a checksum byte
\* verifyCRC accepts.
ReceivableFrame(type, sequence, payload) ==
    LET fields == <<PACKET_START_BYTE1, PACKET_START_BYTE2, type, sequence,
                    Len(payload) % 256, Len(payload) \div 256>>
    IN  fields \o <<CHOOSE c \in AcceptedChecksums(fields) : TRUE, 0>> \o payload
            \o <<calculateCRC16(payload) % 256, calculateCRC16(payload) \div 256>>
            \o <<PACKET_END_BYTE1, PACKET_END_BYTE2>>

ReceivableFrames == {ReceivableFrame(1, 1, <<>>), ReceivableFrame(1, 0, <<255>>)}

\* Bytes that arrive before a frame and hold no start sequence.
Garbage == {<<>>, <<0>>, <<PACKET_START_BYTE2>>, <<PACKET_START_BYTE1>>,
            <<0, PACKET_START_BYTE1>>, <<PACKET_START_BYTE1, 0>>}

\* The first sizeof(PacketHeader) bytes of a frame, damaged: the type set to
\* 0, the length set to MAX_PAYLOAD_SIZE + 1, one bit of the checksum byte
\* inverted.
CorruptedHeaders ==
    UNION {LET header == SubSeq(frame, 1, SIZEOF_PACKET_HEADER)
           IN  {[header EXCEPT ![3] = 0],
                [header EXCEPT ![5] = MAX_PAYLOAD_SIZE + 1, ![6] = 0],
                FlipBit(header, 8 * (SIZEOF_PACKET_HEADER - 2))} :
           frame \in ReceivableFrames}

Streams ==
    {garbage \o frame : garbage \in Garbage, frame \in ReceivableFrames}
    \cup {header \o frame : header \in CorruptedHeaders, frame \in ReceivableFrames}
    \cup {first \o second : first \in ReceivableFrames, second \in ReceivableFrames}
    \cup {FlipBit(frame, 8 * SIZEOF_PACKET_HEADER) \o other :
              frame \in {f \in ReceivableFrames : Len(f) > SIZEOF_PACKET_HEADER
                                                             + SIZEOF_PACKET_FOOTER},
              other \in ReceivableFrames}
    \cup {assemblePacket(type, 1, <<>>, stale) : type \in {1}, stale \in StaleBytes}

ChunkLengths == 1 .. MaxChunk

InitFramer ==
    /\ priorityQueues = [p \in Levels |-> <<>>]
    /\ now = 0
    /\ pc = "idle"
    /\ transmitErrorCount = 0
    /\ receiveErrorCount = 0
    /\ crcErrorCount = 0
    /\ ackTimeoutCount = 0
    /\ currentSpreadingFactor = LORA_SPREADING_FACTOR
    /\ enqueued = 0
    /\ work = 0
    /\ InitLink
    /\ InitPacketHandler
    /\ stream \in Streams
    /\ radioBuffer = <<>>
    /\ serialized = <<>>
    /\ serializedFrom = <<>>
    /\ InitProducer
    /\ InitBuffer

NextFramer ==
    \/ \E length \in ChunkLengths : ProcessIncomingData(length)
    \/ ProcessIncomingData(Len(stream) - fed)

SpecFramer == InitFramer /\ [][NextFramer]_vars


(***************************************************************************)
(* resetStatistics between the other calls: two packets are queued, and    *)
(* the caller goes on with processQueue (the driver accepting or refusing  *)
(* the frame), readings handed to updateSignalQuality, and resetStatistics *)
(* at any moment; the radio delivers nothing, an acknowledgement of a weak *)
(* or a strong signal, or a frame it cannot decode.                        *)
(***************************************************************************)
MaxResetSamples == 1

StatisticsIncoming ==
    {[type |-> "none"], [type |-> "undecodable"], [type |-> "badcrc"],
     [type |-> "ACK", seq |-> 0, payloadLength |-> 4, rssi |-> -120]}

StatisticsSamples == {<<-90, 7>>, <<0, -3>>}

RecordSample ==
    /\ Len(recorded) < MaxResetSamples
    /\ \E sample \in StatisticsSamples : updateSignalQuality(sample[1], sample[2])

NextStatistics ==
    \/ Tick
    \/ \E packet \in StatisticsIncoming : processIncomingPacket(packet)
    \/ \E driverOk \in BOOLEAN : processQueue(driverOk)
    \/ RecordSample
    \/ resetStatistics

SpecStatistics == InitDrain /\ [][NextStatistics]_vars

(***************************************************************************)
(* The framer on headers that declare long frames: the longest payload     *)
(* validateHeader lets through, one byte more, the longest that would fit  *)
(* receiveBuffer, one byte more, and the largest the length field holds,   *)
(* each followed by more bytes than receiveBuffer has room for.            *)
(***************************************************************************)
FillerLength == 520

MaxBurst == 16

DeclaredLengths ==
    {MAX_PAYLOAD_SIZE, MAX_PAYLOAD_SIZE + 1,
     SIZEOF_RECEIVE_BUFFER - SIZEOF_PACKET_HEADER - SIZEOF_PACKET_FOOTER,
     SIZEOF_RECEIVE_BUFFER - SIZEOF_PACKET_HEADER - SIZEOF_PACKET_FOOTER + 1,
     65535}

LongHeader(payloadLength) ==
    <<PACKET_START_BYTE1, PACKET_START_BYTE2, PACKET_TYPE_HEARTBEAT, 0,
      payloadLength % 256, payloadLength \div 256, 0, 0>>

Fillers == {[i \in 1 .. FillerLength |-> byte] : byte \in {0, 255}}

LongStreams ==
    {LongHeader(payloadLength) \o filler :
        payloadLength \in DeclaredLengths, filler \in Fillers}

BurstLengths == ChunkLengths \cup {MaxBurst}

InitOverrun ==
    /\ priorityQueues = [p \in Levels |-> <<>>]
    /\ now = 0
    /\ pc = "idle"
    /\ transmitErrorCount = 0
    /\ receiveErrorCount = 0
    /\ crcErrorCount = 0
    /\ ackTimeoutCount = 0
    /\ currentSpreadingFactor = LORA_SPREADING_FACTOR
    /\ enqueued = 0
    /\ work = 0
    /\ InitLink
    /\ InitPacketHandler
    /\ stream \in LongStreams
    /\ radioBuffer = <<>>
    /\ serialized = <<>>
    /\ serializedFrom = <<>>
    /\ InitProducer
    /\ InitBuffer

NextOverrun == \E length \in BurstLengths : ProcessIncomingData(length)

SpecOverrun == InitOverrun /\ [][NextOverrun]_vars

(***************************************************************************)
(* PacketHandler, the queue of packets to send: packetQueue[16] with       *)
(* queueSize counted slots.  The operators work on a record of the fields  *)
(* they touch and return it with a result field.  Addresses are positive   *)
(* numbers; malloc is taken to succeed and to hand out the lowest address  *)
(* that is not allocated, so a freed address comes back.                   *)
(***************************************************************************)
MaxBufferOps == 4

MaxBufferTicks == 1

PacketPriorities == {PRIORITY_LOW, PRIORITY_NORMAL, PRIORITY_HIGH, PRIORITY_CRITICAL}

Slots == 0 .. (QUEUE_SLOTS - 1)

malloc(allocated) ==
    CHOOSE p \in 1 .. (Cardinality(allocated) + 1) :
        p \notin allocated /\ \A r \in 1 .. (p - 1) : r \in allocated

\* free(ptr): giving free an address that is not allocated is undefined.
free(q, ptr) ==
    IF ptr \in q.live
    THEN [q EXCEPT !.live = @ \ {ptr}]
    ELSE [q EXCEPT !.undefinedBehaviour = TRUE]

findOldestLowPriorityPacket(q) ==
    LET low == {i \in 0 .. (q.queueSize - 1) :
                    q.packetQueue[i].priority \in {PRIORITY_LOW, PRIORITY_NORMAL}}
    IN  IF low = {}
        THEN QUEUE_SLOTS
        ELSE CHOOSE i \in low :
                 \A j \in low :
                     \/ q.packetQueue[i].timestamp < q.packetQueue[j].timestamp
                     \/ q.packetQueue[i].timestamp = q.packetQueue[j].timestamp /\ i <= j

\* The first half of addToBuffer: a full queue gives up its oldest
\* low-priority packet, or the call is refused.
makeRoom(q) ==
    IF q.queueSize < QUEUE_SLOTS
    THEN [q EXCEPT !.result = TRUE]
    ELSE LET oldestIndex == findOldestLowPriorityPacket(q)
         IN  IF oldestIndex < QUEUE_SLOTS
             THEN LET freed == IF q.packetQueue[oldestIndex].data # 0
                               THEN free(q, q.packetQueue[oldestIndex].data)
                               ELSE q
                  IN  [freed EXCEPT
                          !.queueSize = @ - 1,
                          !.packetQueue =
                              [i \in Slots |->
                                  IF i >= oldestIndex /\ i < q.queueSize - 1
                                  THEN q.packetQueue[i + 1]
                                  ELSE q.packetQueue[i]],
                          !.result = TRUE]
             ELSE [q EXCEPT !.packetsDropped = @ + 1, !.result = FALSE]

\* A variant that puts the new packet in front of those of its priority.
insertPositionBeforeEqual(q, priority) ==
    LET higher == {i \in 0 .. (q.queueSize - 1) : priority >= q.packetQueue[i].priority}
    IN  IF higher = {}
        THEN q.queueSize
        ELSE CHOOSE i \in higher : \A j \in higher : i <= j

insertPosition(q, priority) ==
    LET higher == {i \in 0 .. (q.queueSize - 1) : priority > q.packetQueue[i].priority}
    IN  IF higher = {}
        THEN q.queueSize
        ELSE CHOOSE i \in higher : \A j \in higher : i <= j

\* The second half of addToBuffer: the slots from insertPos up move one up
\* and the new packet gets a buffer of its own.
insertAt(q, insertPos, priority, millis) ==
    LET ptr == malloc(q.live)
    IN  [q EXCEPT
            !.packetQueue =
                [i \in Slots |->
                    IF i = insertPos
                    THEN [data |-> ptr, priority |-> priority, timestamp |-> millis,
                          uid |-> q.added + 1]
                    ELSE IF i > insertPos /\ i <= q.queueSize
                         THEN q.packetQueue[i - 1]
                         ELSE q.packetQueue[i]],
            !.live = @ \cup {ptr},
            !.queueSize = @ + 1,
            !.added = @ + 1,
            !.result = TRUE]

addToBuffer(q, priority, millis) ==
    LET room == makeRoom(q)
    IN  IF ~room.result
        THEN room
        ELSE insertAt(room, insertPosition(room, priority), priority, millis)

\* dequeuePacket: slot 0 goes to the caller and the counted slots move one
\* down; the last counted slot is copied down and left as it is.
dequeuePacket(q) ==
    IF q.queueSize = 0
    THEN [q EXCEPT !.result = FALSE]
    ELSE LET handed == [q.packetQueue EXCEPT ![0].data = 0]
         IN  [q EXCEPT
                 !.dequeued = [data |-> q.packetQueue[0].data,
                               uid |-> q.packetQueue[0].uid],
                 !.packetQueue =
                     [i \in Slots |->
                         IF i < q.queueSize - 1 THEN handed[i + 1] ELSE handed[i]],
                 !.queueSize = @ - 1,
                 !.result = TRUE]

RECURSIVE clearBufferFrom(_, _)
clearBufferFrom(q, i) ==
    IF i >= QUEUE_SLOTS
    THEN [q EXCEPT !.queueSize = 0]
    ELSE LET freed == IF q.packetQueue[i].data # 0
                      THEN free(q, q.packetQueue[i].data)
                      ELSE q
         IN  CHOOSE final \in {clearBufferFrom(next, i + 1) :
                                  next \in {[freed EXCEPT !.packetQueue[i] = EmptySlot]}} :
                 TRUE

clearBuffer(q) == clearBufferFrom(q, 0)

\* The fields of the queue as one record, and back.
BufferState ==
    [packetQueue |-> packetQueue, queueSize |-> queueSize,
     packetsDropped |-> packetsDropped, live |-> live,
     undefinedBehaviour |-> undefinedBehaviour, added |-> added,
     dequeued |-> dequeued, result |-> FALSE]

SetBuffer(q) ==
    /\ packetQueue' = q.packetQueue
    /\ queueSize' = q.queueSize
    /\ packetsDropped' = q.packetsDropped
    /\ live' = q.live
    /\ undefinedBehaviour' = q.undefinedBehaviour
    /\ added' = q.added
    /\ dequeued' = q.dequeued

BufferCall ==
    /\ ~undefinedBehaviour
    /\ bufferOps < MaxBufferOps
    /\ bufferOps' = bufferOps + 1

\* enqueuePacket(packetData, packetSize, priority), and createPacket with
\* the default priority.
enqueuePacket(priority) ==
    /\ BufferCall
    /\ \E after \in {addToBuffer(BufferState, priority, now)} : SetBuffer(after)
    /\ UNCHANGED <<packetsSent, held>>
    /\ UNCHANGED <<loraVars, packetHandlerVars, receiveVars, producerVars>>

\* PacketHandler::sendPacket: the front packet is taken, counted as sent by
\* packetsSent++ and again by updateStatistics(HEARTBEAT, true), and freed.
PacketHandler_sendPacket ==
    /\ BufferCall
    /\ \E taken \in {dequeuePacket(BufferState)} :
           IF ~taken.result
           THEN SetBuffer(taken) /\ UNCHANGED packetsSent
           ELSE /\ packetsSent' = packetsSent + 2
                /\ SetBuffer(IF taken.dequeued.data # 0
                             THEN free(taken, taken.dequeued.data)
                             ELSE taken)
    /\ UNCHANGED held
    /\ UNCHANGED <<loraVars, packetHandlerVars, receiveVars, producerVars>>

\* getBufferedPacket: the front packet is taken and its buffer is the
\* caller's from now on.
getBufferedPacket ==
    /\ BufferCall
    /\ \E taken \in {dequeuePacket(BufferState)} :
           /\ SetBuffer(taken)
           /\ held' = IF taken.result /\ taken.dequeued.data # 0
                      THEN held \cup {taken.dequeued.data}
                      ELSE held
    /\ UNCHANGED packetsSent
    /\ UNCHANGED <<loraVars, packetHandlerVars, receiveVars, producerVars>>

\* The caller of getBufferedPacket frees a buffer it was given.
ReleaseDequeued ==
    /\ ~undefinedBehaviour
    /\ \E ptr \in held :
           /\ SetBuffer(free(BufferState, ptr))
           /\ held' = held \ {ptr}
    /\ UNCHANGED <<packetsSent, bufferOps>>
    /\ UNCHANGED <<loraVars, packetHandlerVars, receiveVars, producerVars>>

\* end(), and begin() again: clearBuffer.
ClearBuffer ==
    /\ BufferCall
    /\ queueSize + Cardinality(live) > 0
    /\ SetBuffer(clearBuffer(BufferState))
    /\ UNCHANGED <<packetsSent, held>>
    /\ UNCHANGED <<loraVars, packetHandlerVars, receiveVars, producerVars>>

BufferTick ==
    /\ ~undefinedBehaviour
    /\ now < MaxBufferTicks * MsPerStep
    /\ AdvanceTime

\* The queues the runs start from: the one the constructor leaves, and full
\* ones built by addToBuffer from it, each packet with its priority and the
\* time of the call.
RECURSIVE addAll(_, _, _)
addAll(q, burst, k) ==
    IF k > Len(burst)
    THEN q
    ELSE CHOOSE final \in {addAll(next, burst, k + 1) :
                              next \in {addToBuffer(q, burst[k][1], burst[k][2])}} :
             TRUE

UrgentBurst ==
    [k \in 1 .. QUEUE_SLOTS |->
        <<IF k % 2 = 0 THEN PRIORITY_HIGH ELSE PRIORITY_CRITICAL, 0>>]

MixedBurst ==
    [k \in 1 .. QUEUE_SLOTS |->
        <<CASE k % 4 = 0 -> PRIORITY_CRITICAL
            [] k % 4 = 1 -> PRIORITY_NORMAL
            [] k % 4 = 2 -> PRIORITY_HIGH
            [] OTHER     -> PRIORITY_LOW,
          IF k < 6 THEN MsPerStep ELSE 0>>]

ShortBurst == <<<<PRIORITY_NORMAL, 0>>, <<PRIORITY_HIGH, 0>>>>

ConstructedQueue ==
    [packetQueue |-> [i \in Slots |-> EmptySlot], queueSize |-> 0,
     packetsDropped |-> 0, live |-> {}, undefinedBehaviour |-> FALSE, added |-> 0,
     dequeued |-> NothingDequeued, result |-> FALSE]

StartQueues ==
    {addAll(ConstructedQueue, burst, 1) :
        burst \in {<<>>, ShortBurst, UrgentBurst, MixedBurst}}

InitQueue ==
    /\ priorityQueues = [p \in Levels |-> <<>>]
    /\ now = 0
    /\ pc = "idle"
    /\ transmitErrorCount = 0
    /\ receiveErrorCount = 0
    /\ crcErrorCount = 0
    /\ ackTimeoutCount = 0
    /\ currentSpreadingFactor = LORA_SPREADING_FACTOR
    /\ enqueued = 0
    /\ work = 0
    /\ InitLink
    /\ InitPacketHandler
    /\ stream = <<>>
    /\ radioBuffer = <<>>
    /\ serialized = <<>>
    /\ serializedFrom = <<>>
    /\ InitProducer
    /\ \E q \in StartQueues :
           /\ packetQueue = q.packetQueue
           /\ queueSize = q.queueSize
           /\ packetsDropped = q.packetsDropped
           /\ live = q.live
           /\ undefinedBehaviour = q.undefinedBehaviour
           /\ added = q.added
           /\ dequeued = q.dequeued
    /\ packetsSent = 0
    /\ held = {}
    /\ bufferOps = 0

NextQueue ==
    \/ \E priority \in PacketPriorities : enqueuePacket(priority)
    \/ PacketHandler_sendPacket
    \/ getBufferedPacket
    \/ ReleaseDequeued
    \/ ClearBuffer
    \/ BufferTick

SpecQueue == InitQueue /\ [][NextQueue]_vars


(***************************************************************************)
(* Vocabulary of the properties.                                           *)
(***************************************************************************)
Positions(q) == UNION {{<<p, i>> : i \in 1 .. Len(q[p])} : p \in Levels}

EntryAt(q, pos) == q[pos[1]][pos[2]]

NonEmptyLevels(q) == {p \in Levels : Len(q[p]) > 0}

HighestNonEmpty(q) == CHOOSE p \in NonEmptyLevels(q) : \A r \in NonEmptyLevels(q) : p <= r

Uids(q) == {EntryAt(q, pos).uid : pos \in Positions(q)}

\* The position in q of the entry with the given uid.
PositionOf(q, uid) == CHOOSE pos \in Positions(q) : EntryAt(q, pos).uid = uid

\* A step that is the second half of processQueue.
SendStep == pc = "polled" /\ pc' = "idle"

\* A step that is a sendPacket call.
EnqueueStep == enqueued' = enqueued + 1

\* The entries the step transmitted: transmitAttempts went up.
TransmittedBy(q, r) ==
    {uid \in Uids(q) \cap Uids(r) :
        EntryAt(r, PositionOf(r, uid)).transmitAttempts
            > EntryAt(q, PositionOf(q, uid)).transmitAttempts}

\* q with the element at position index of level p taken out.
Without(q, p, index) ==
    [q EXCEPT ![p] = SubSeq(@, 1, index - 1) \o SubSeq(@, index + 1, Len(@))]

(***************************************************************************)
(* C1 (single-flight): in every reachable state at most one queued entry,  *)
(* over all five levels, has waitingForAck = TRUE.                         *)
(* The code does not keep this: processQueue looks only at the head of the *)
(* highest-priority non-empty level, so an entry queued at a higher        *)
(* priority is transmitted while a lower-priority entry is still waiting.  *)
(***************************************************************************)
C1_SingleFlight ==
    Cardinality({pos \in Positions(priorityQueues) :
                    EntryAt(priorityQueues, pos).waitingForAck}) <= 1

(***************************************************************************)
(* C2 (retry bound): an entry is transmitted at most MAX_RETRIES times; a  *)
(* transmission raises transmitAttempts by exactly one; and when the send  *)
(* half of processQueue removes an entry (retry exhaustion) the entry has  *)
(* been transmitted exactly MAX_RETRIES times and transmitErrorCount goes  *)
(* up by exactly one in that step.                                         *)
(***************************************************************************)
C2_RetryBound ==
    [][priorityQueues' # priorityQueues =>
       /\ \A pos \in Positions(priorityQueues') :
              EntryAt(priorityQueues', pos).transmitAttempts <= MAX_RETRIES
       /\ \A uid \in TransmittedBy(priorityQueues, priorityQueues') :
              /\ SendStep
              /\ EntryAt(priorityQueues', PositionOf(priorityQueues', uid)).transmitAttempts
                     = EntryAt(priorityQueues, PositionOf(priorityQueues, uid)).transmitAttempts + 1
       /\ SendStep =>
              \A uid \in Uids(priorityQueues) \ Uids(priorityQueues') :
                  /\ EntryAt(priorityQueues, PositionOf(priorityQueues, uid)).transmitAttempts
                         = MAX_RETRIES
                  /\ transmitErrorCount' = transmitErrorCount + 1
                  /\ Uids(priorityQueues) \ Uids(priorityQueues') = {uid}
      ]_vars

\* One packet was queued, timed out three times and is gone, counted once.
C2_Witness ==
    /\ enqueued = 1
    /\ ackTimeoutCount = MAX_RETRIES
    /\ transmitErrorCount = 1
    /\ Positions(priorityQueues) = {}

(***************************************************************************)
(* C3 (strict priority): getNextPacket returns slot 0 of the               *)
(* highest-priority non-empty level (Emergency first, Status last) and     *)
(* nullptr exactly when all five levels are empty, whatever the order in   *)
(* which the entries were queued.                                          *)
(***************************************************************************)
C3_StrictPriority ==
    IF NonEmptyLevels(priorityQueues) = {}
    THEN getNextPacket(priorityQueues) = NULL
    ELSE getNextPacket(priorityQueues) = <<HighestNonEmpty(priorityQueues), 1>>

\* A higher-priority entry queued after a lower-priority one is the one returned.
C3_Witness ==
    \E hi, lo \in NonEmptyLevels(priorityQueues) :
        /\ hi < lo
        /\ priorityQueues[hi][1].uid > priorityQueues[lo][1].uid
        /\ getNextPacket(priorityQueues) = <<hi, 1>>

(***************************************************************************)
(* C4 (emergency first): when processQueue runs with an entry in the       *)
(* Emergency level, no entry of a lower level is transmitted or touched by *)
(* it, whatever state those entries are in; and if the Emergency head has  *)
(* just been queued (never transmitted) processQueue transmits it, unless  *)
(* the driver refuses the frame.                                           *)
(***************************************************************************)
C4_EmergencyFirst ==
    [][(SendStep /\ Len(priorityQueues[EMERGENCY - 1]) > 0) =>
          /\ \A p \in Levels \ {EMERGENCY - 1} : priorityQueues'[p] = priorityQueues[p]
          /\ LET head == priorityQueues[EMERGENCY - 1][1]
             IN  (head.transmitAttempts = 0 /\ ~head.waitingForAck) =>
                    \/ /\ Len(priorityQueues'[EMERGENCY - 1]) > 0
                       /\ priorityQueues'[EMERGENCY - 1][1] =
                              [head EXCEPT !.transmitAttempts = 1,
                                           !.lastTransmitTime = now,
                                           !.waitingForAck = TRUE]
                    \/ /\ transmitErrorCount' = transmitErrorCount + 1
                       /\ priorityQueues' = priorityQueues
      ]_vars

\* The camera level holds at least 5 entries, its head in flight, and the
\* Emergency entry queued after them has been transmitted.
C4_Witness ==
    /\ Len(priorityQueues[CAMERA - 1]) >= 5
    /\ priorityQueues[CAMERA - 1][1].waitingForAck
    /\ Len(priorityQueues[EMERGENCY - 1]) = 1
    /\ priorityQueues[EMERGENCY - 1][1].uid > priorityQueues[CAMERA - 1][1].uid
    /\ priorityQueues[EMERGENCY - 1][1].transmitAttempts = 1
    /\ priorityQueues[EMERGENCY - 1][1].waitingForAck

(***************************************************************************)
(* C5 (FIFO within a level): every level holds its entries in the order    *)
(* they were queued; an entry is transmitted only while it is at slot 0 of *)
(* its level, so never while an entry queued before it at the same level   *)
(* is still queued; and the level served is the highest-priority non-empty *)
(* one at that call.                                                       *)
(***************************************************************************)
C5_FifoWithinLevel ==
    [][priorityQueues' # priorityQueues =>
       /\ \A p \in Levels : \A i, j \in 1 .. Len(priorityQueues'[p]) :
              i < j => priorityQueues'[p][i].uid < priorityQueues'[p][j].uid
       /\ \A uid \in TransmittedBy(priorityQueues, priorityQueues') :
              PositionOf(priorityQueues, uid) = <<HighestNonEmpty(priorityQueues), 1>>
      ]_vars

\* Two entries of one level, the older one transmitted, the younger one not.
C5_Witness ==
    \E p \in Levels :
        /\ Len(priorityQueues[p]) >= 2
        /\ priorityQueues[p][1].transmitAttempts > 0
        /\ priorityQueues[p][2].transmitAttempts = 0
        /\ priorityQueues[p][1].uid < priorityQueues[p][2].uid


(***************************************************************************)
(* C6 (overflow evicts the oldest of the same level): a sendPacket into a  *)
(* level that holds MAX_QUEUE_SIZE entries drops that level's slot 0,      *)
(* keeps the other 9 entries in their order, stores the new entry in the   *)
(* last slot and leaves the other four levels as they were.                *)
(***************************************************************************)
C6_EvictOldest ==
    [][EnqueueStep =>
          /\ enqueued' \in Uids(priorityQueues')
          /\ LET pos == PositionOf(priorityQueues', enqueued')
                 p == pos[1]
                 new == EntryAt(priorityQueues', pos)
             IN  Len(priorityQueues[p]) = MAX_QUEUE_SIZE =>
                    /\ new = QueuedPacket(enqueued', Packet(new.seq, new.payloadLength), p + 1)
                    /\ priorityQueues'[p] = Append(Tail(priorityQueues[p]), new)
                    /\ \A r \in Levels \ {p} : priorityQueues'[r] = priorityQueues[r]
      ]_vars

\* The camera level, full since the burst and untouched by processQueue
\* (the telemetry entry queued with it is still there), has lost its oldest
\* entry to a new one.
C6_Witness ==
    /\ Len(priorityQueues[CAMERA - 1]) = MAX_QUEUE_SIZE
    /\ priorityQueues[CAMERA - 1][1].uid = 2
    /\ priorityQueues[CAMERA - 1][MAX_QUEUE_SIZE].uid = MAX_QUEUE_SIZE + 2
    /\ Len(priorityQueues[TELEMETRY - 1]) = 1
    /\ priorityQueues[TELEMETRY - 1][1].uid = MAX_QUEUE_SIZE + 1

(***************************************************************************)
(* C7 (overflow is counted): a sendPacket that evicts an entry raises a    *)
(* counter of the manager by exactly one, and a sendPacket into a level    *)
(* with room changes no counter.                                           *)
(* LoRaManager has four counters and addToQueueInternal writes none.       *)
(***************************************************************************)
C7_OverflowCounted ==
    [][EnqueueStep =>
          LET before == <<transmitErrorCount, receiveErrorCount, crcErrorCount, ackTimeoutCount>>
              after == <<transmitErrorCount', receiveErrorCount', crcErrorCount', ackTimeoutCount'>>
          IN  IF Uids(priorityQueues) \ Uids(priorityQueues') # {}
              THEN \E c \in 1 .. 4 :
                       /\ after[c] = before[c] + 1
                       /\ \A d \in (1 .. 4) \ {c} : after[d] = before[d]
              ELSE after = before
      ]_vars

(***************************************************************************)
(* C8 (bounded memory): every level holds between 0 and MAX_QUEUE_SIZE     *)
(* entries in every reachable state.                                       *)
(***************************************************************************)
C8_BoundedLevels ==
    \A p \in Levels : Len(priorityQueues[p]) \in 0 .. MAX_QUEUE_SIZE

\* A level at capacity whose last slot holds an entry queued after the burst.
C8_Witness ==
    \E p \in Levels :
        /\ Len(priorityQueues[p]) = MAX_QUEUE_SIZE
        /\ priorityQueues[p][MAX_QUEUE_SIZE].uid = enqueued
        /\ enqueued > MAX_QUEUE_SIZE + 1

(***************************************************************************)
(* C9, as amended (ACK removes the first waiting match): a valid ACK for   *)
(* sequence number s removes the first entry, scanning Emergency to Status *)
(* and slot 0 upward, that has sequence number s and is waiting for ACK,   *)
(* whichever level it is in, and changes nothing else; when no entry with  *)
(* that number is waiting for ACK the queues stay as they are.  The first  *)
(* half of processQueue changes the queues in no other way than such a     *)
(* removal or the clearing of one waitingForAck flag.                      *)
(***************************************************************************)
ValidAck(s) == [type |-> "ACK", seq |-> s, payloadLength |-> 4, rssi |-> -100]

ValidNack(s) == [type |-> "NACK", seq |-> s, payloadLength |-> 3]

\* The first position of a non-empty set of positions, in scan order.
FirstOf(set) ==
    CHOOSE f \in set : \A g \in set : f[1] < g[1] \/ (f[1] = g[1] /\ f[2] <= g[2])

WithSeq(q, s) == {pos \in Positions(q) : EntryAt(q, pos).seq = s}

WaitingWithSeq(q, s) == {pos \in WithSeq(q, s) : EntryAt(q, pos).waitingForAck}

AckRemoval(q, s) ==
    IF WaitingWithSeq(q, s) = {} THEN q
    ELSE Without(q, FirstOf(WaitingWithSeq(q, s))[1], FirstOf(WaitingWithSeq(q, s))[2])

NackClearing(q, s) ==
    IF WaitingWithSeq(q, s) = {} THEN q
    ELSE [q EXCEPT ![FirstOf(WaitingWithSeq(q, s))[1]][FirstOf(WaitingWithSeq(q, s))[2]]
                       .waitingForAck = FALSE]

PollStep == pc = "idle" /\ pc' = "polled"

C9_AckRemovesFirstWaiting ==
    /\ [](\A s \in SeqNums :
              handleAck(priorityQueues, ValidAck(s)) = AckRemoval(priorityQueues, s))
    /\ [][PollStep =>
              \/ priorityQueues' = priorityQueues
              \/ \E s \in SeqNums : priorityQueues' = AckRemoval(priorityQueues, s)
              \/ \E s \in SeqNums : priorityQueues' = NackClearing(priorityQueues, s)
         ]_vars

\* Two queued entries carry the same number; the first in scan order is not
\* waiting for ACK, the later one is: an ACK takes the later one.
C9_Witness ==
    \E s \in SeqNums :
        /\ WaitingWithSeq(priorityQueues, s) # {}
        /\ FirstOf(WithSeq(priorityQueues, s)) # FirstOf(WaitingWithSeq(priorityQueues, s))
        /\ handleAck(priorityQueues, ValidAck(s)) # priorityQueues
        /\ pc = "idle"

\* C9 as first stated: a valid ACK for s removes the first queued entry with
\* sequence number s whenever there is one.
C9_AckRemovesFirstMatch ==
    \A s \in SeqNums :
        WithSeq(priorityQueues, s) # {} =>
            handleAck(priorityQueues, ValidAck(s)) =
                Without(priorityQueues, FirstOf(WithSeq(priorityQueues, s))[1],
                        FirstOf(WithSeq(priorityQueues, s))[2])

(***************************************************************************)
(* C10 (NACK): a valid NACK for s clears waitingForAck on the first        *)
(* waiting entry with that number and changes neither its transmitAttempts *)
(* nor its slot nor any other entry; and when processQueue goes on to the  *)
(* send half with a head that is not waiting and below the retry limit, it *)
(* transmits that head at once, however recent its lastTransmitTime.       *)
(***************************************************************************)
C10_NackClearsWaiting ==
    /\ [](\A s \in SeqNums :
              handleNack(priorityQueues, ValidNack(s)) = NackClearing(priorityQueues, s))
    /\ [][(SendStep /\ getNextPacket(priorityQueues) # NULL) =>
              LET pos == getNextPacket(priorityQueues)
                  head == EntryAt(priorityQueues, pos)
              IN  (~head.waitingForAck /\ head.transmitAttempts < MAX_RETRIES) =>
                     \/ priorityQueues' =
                            [priorityQueues EXCEPT ![pos[1]][pos[2]] =
                                [head EXCEPT !.transmitAttempts = @ + 1,
                                             !.lastTransmitTime = now,
                                             !.waitingForAck = TRUE]]
                     \/ /\ transmitErrorCount' = transmitErrorCount + 1
                        /\ priorityQueues' = priorityQueues
         ]_vars

\* An entry sent twice with no ACK timeout ever counted and no time passed:
\* the second transmission followed a NACK.
C10_Witness ==
    \E pos \in Positions(priorityQueues) :
        /\ EntryAt(priorityQueues, pos).transmitAttempts = 2
        /\ EntryAt(priorityQueues, pos).waitingForAck
        /\ EntryAt(priorityQueues, pos).lastTransmitTime = now
        /\ ackTimeoutCount = 0
        /\ now = 0

(***************************************************************************)
(* C11 (a driver failure counts as an attempt): a processQueue call whose  *)
(* transmitPacket fails (transmitErrorCount goes up and the entry stays    *)
(* queued) raises transmitAttempts of that entry by one, so that an entry  *)
(* whose every attempt fails reaches MAX_RETRIES and is dropped.           *)
(* The code leaves transmitAttempts alone on that branch: the entry stays  *)
(* at the head with the attempts it had and is tried again on every call.  *)
(***************************************************************************)
C11_DriverFailureCounts ==
    [][(/\ SendStep
        /\ transmitErrorCount' = transmitErrorCount + 1
        /\ Uids(priorityQueues') = Uids(priorityQueues)) =>
           LET pos == getNextPacket(priorityQueues)
           IN  EntryAt(priorityQueues', pos).transmitAttempts
                   = EntryAt(priorityQueues, pos).transmitAttempts + 1
      ]_vars

(***************************************************************************)
(* C12 (oversize payloads are rejected at the enqueue call): no queue ever *)
(* holds an entry whose payload is longer than MAX_PAYLOAD_SIZE.           *)
(* sendPacket and createPacket test no length: the entry is queued, and    *)
(* the length is first looked at by serializePacket at transmit time.      *)
(***************************************************************************)
C12_NoOversizeQueued ==
    \A pos \in Positions(priorityQueues) :
        EntryAt(priorityQueues, pos).payloadLength <= MAX_PAYLOAD_SIZE

(***************************************************************************)
(* C13 (consecutive sequence numbers): of two queued entries made by       *)
(* consecutive sender calls, the later one carries the number of the       *)
(* earlier one plus 1 modulo 65536.                                        *)
(* createPacket numbers every packet 0.                                    *)
(***************************************************************************)
C13_ConsecutiveNumbers ==
    \A a, b \in Positions(priorityQueues) :
        EntryAt(priorityQueues, b).uid = EntryAt(priorityQueues, a).uid + 1 =>
            EntryAt(priorityQueues, b).seq = (EntryAt(priorityQueues, a).seq + 1) % 65536

(***************************************************************************)
(* C14 (adaptive bound): whatever sequence of adaptTransmissionSettings,   *)
(* setSpreadingFactor, enterLowPowerMode and exitLowPowerMode calls is     *)
(* made, the spreading factor in use lies in 7 .. 12, the range the        *)
(* adaptive controller steps within.                                       *)
(* setSpreadingFactor accepts 6 .. 12, so a call with 6 takes the factor   *)
(* below the floor of the controller.                                      *)
(***************************************************************************)
C14_AdaptiveBound == currentSpreadingFactor \in 7 .. 12

(***************************************************************************)
(* C15 (strong signal steps down to the floor): along a run of consecutive *)
(* adaptTransmissionSettings calls with a signal above                     *)
(* ADAPTIVE_SF_HIGH_THRESHOLD, each call lowers the spreading factor by    *)
(* exactly 1 while it is above 7 and leaves it unchanged otherwise; a run  *)
(* that starts at 7 or above has reached 7 once it is long enough, and     *)
(* stays there.                                                            *)
(***************************************************************************)
C15_StepsDownToFloor ==
    run # <<>> =>
        /\ Len(run) >= 2
        /\ run[Len(run)] = currentSpreadingFactor
        /\ \A i \in 2 .. Len(run) :
               run[i] = IF run[i - 1] > 7 THEN run[i - 1] - 1 ELSE run[i - 1]
        /\ (run[1] >= 7 /\ Len(run) - 1 >= run[1] - 7) => currentSpreadingFactor = 7

\* MaxRun strong samples in a row, fed from the ceiling: the factor came down
\* to the floor and the later samples of the run left it there.
C15_Witness ==
    /\ Len(run) = MaxRun + 1
    /\ run[1] = 12
    /\ run[6] = 7
    /\ currentSpreadingFactor = 7

(***************************************************************************)
(* C16 (the adapted value survives a low-power override): when             *)
(* adaptTransmissionSettings has moved the spreading factor to v,          *)
(* exitLowPowerMode called right after enterLowPowerMode leaves the        *)
(* spreading factor in use equal to v.                                     *)
(* exitLowPowerMode sets LORA_SPREADING_FACTOR, and setSpreadingFactor     *)
(* overwrites the only two members there are: no adapted value is kept.    *)
(***************************************************************************)
C16_OverrideRestoresAdapted ==
    [][(/\ lastCall = "enterLowPowerMode"
        /\ lastCall' = "exitLowPowerMode"
        /\ adaptedValue # 0) =>
           currentSpreadingFactor' = adaptedValue
      ]_vars

(***************************************************************************)
(* C17 (the averages are the mean of what was recorded): with k samples    *)
(* recorded since construction or resetStatistics, 1 <= k <=               *)
(* RSSI_HISTORY_SIZE, getAverageRSSI and getAverageSNR return the integer  *)
(* mean of those k values, whatever the values; with none recorded they    *)
(* return -128.                                                            *)
(* The code takes a slot that holds 0 for an unfilled one: a recorded      *)
(* sample of 0 is left out of the sum and of the count.                    *)
(***************************************************************************)
MeanOf(samples, field) ==
    Quotient(SumOf([i \in 1 .. Len(samples) |-> samples[i][field]], 1 .. Len(samples)),
             Len(samples))

C17_AverageOfRecorded ==
    IF recorded = <<>>
    THEN getAverageRSSI = -128 /\ getAverageSNR = -128
    ELSE Len(recorded) <= RSSI_HISTORY_SIZE =>
            /\ getAverageRSSI = MeanOf(recorded, 1)
            /\ getAverageSNR = MeanOf(recorded, 2)


(***************************************************************************)
(* C18 (codec round trip): whatever assemblePacket produced for a type, a  *)
(* sequence number and a payload, disassemblePacket accepts, and it hands  *)
(* back the same type, the same payload length and the same payload bytes  *)
(* (the sequence number is not among disassemblePacket's outputs).         *)
(* The encoder allocates sizeof(PacketHeader) + n + sizeof(PacketFooter)   *)
(* = n + 12 bytes and writes n + 11 of them, so the end bytes sit at       *)
(* offsets length - 3 and length - 2, and validatePacket looks for them    *)
(* at length - 2 and length - 1.                                           *)
(***************************************************************************)
C18_RoundTrip ==
    packetData # NULL =>
        \A beyond \in StaleBytes :
            /\ validatePacket(packetData, beyond)
            /\ disassemblePacket(packetData, beyond).ok
            /\ disassemblePacket(packetData, beyond).type = assembled.type
            /\ disassemblePacket(packetData, beyond).payloadSize = Len(assembled.payload)
            /\ disassemblePacket(packetData, beyond).payload = assembled.payload

(***************************************************************************)
(* C19 (frame layout): a frame assembled with a payload of n bytes is      *)
(* n + 12 bytes: offsets 0-1 start bytes, 2 type, 3-4 sequence number      *)
(* high byte first, 5-6 payload length high byte first, 7 header CRC,      *)
(* 8 .. 8+n-1 payload, then the payload CRC, then the two end bytes as     *)
(* the last two; and every byte follows from type, sequence number and     *)
(* payload, whatever the allocated block held before.                      *)
(* The code writes a one-byte sequence number at offset 3, the length at   *)
(* 4-5, the header CRC at 6 and the payload from 7; the last byte is       *)
(* never written, and the header CRC covers offset 6 before it is.         *)
(***************************************************************************)
C19_FrameLayout ==
    packetData # NULL =>
        LET n == Len(assembled.payload)
        IN  /\ Len(packetData) = n + 12
            /\ SubSeq(packetData, 1, 2) = <<PACKET_START_BYTE1, PACKET_START_BYTE2>>
            /\ packetData[3] = assembled.type
            /\ SubSeq(packetData, 4, 5) = uint16ToBytes(assembled.sequence)
            /\ SubSeq(packetData, 6, 7) = uint16ToBytes(n)
            /\ packetData[8] = calculateCRC8(SubSeq(packetData, 1, 7))
            /\ SubSeq(packetData, 9, 8 + n) = assembled.payload
            /\ SubSeq(packetData, 9 + n, 10 + n) = uint16ToBytes(calculateCRC16(assembled.payload))
            /\ SubSeq(packetData, 11 + n, 12 + n) = <<PACKET_END_BYTE1, PACKET_END_BYTE2>>
            /\ \A stale \in StaleBytes :
                   packetData = assemblePacket(assembled.type, assembled.sequence,
                                               assembled.payload, stale)

(***************************************************************************)
(* C20 (corruption detection): flipping any one bit of the bytes the       *)
(* header CRC is computed over changes calculateCRC8, and flipping any one *)
(* bit of the payload changes calculateCRC16.  The header ranges are the   *)
(* seven bytes assemblePacket reads (six fields and the byte not yet       *)
(* written) and the seven bytes verifyCRC reads from the finished frame.   *)
(***************************************************************************)
C20_SingleBitFlipDetected ==
    packetData # NULL =>
        LET read == SubSeq(packetData, 1, SIZEOF_PACKET_HEADER - 2) \o <<assembled.stale>>
            verified == SubSeq(packetData, 1, SIZEOF_PACKET_HEADER - 1)
            payload == assembled.payload
        IN  /\ \A bit \in BitsOf(read) :
                   calculateCRC8(FlipBit(read, bit)) # calculateCRC8(read)
            /\ \A bit \in BitsOf(verified) :
                   calculateCRC8(FlipBit(verified, bit)) # calculateCRC8(verified)
            /\ \A bit \in BitsOf(payload) :
                   calculateCRC16(FlipBit(payload, bit)) # calculateCRC16(payload)

C20_Witness ==
    /\ packetData # NULL
    /\ Len(assembled.payload) = MaxPayloadLen
    /\ assembled.stale # 0
    /\ packetData[7] = calculateCRC8(SubSeq(packetData, 1, 6) \o <<assembled.stale>>)


(***************************************************************************)
(* C21 (only verified frames are counted): a frame is counted as received  *)
(* only if its header checksum and its payload checksum matched when it    *)
(* was received: the checksum byte of every accepted frame is the CRC8 of  *)
(* the header fields before it, and its payload CRC is the CRC16 of its    *)
(* payload.                                                                *)
(* verifyCRC computes the header CRC over sizeof(PacketHeader) - 1 = 7     *)
(* bytes, the checksum byte itself among them, and compares the result     *)
(* with that byte: what it accepts is not the CRC8 of the header fields.   *)
(***************************************************************************)
HeaderFields(frame) == SubSeq(frame, 1, SIZEOF_PACKET_HEADER - 2)

HeaderChecksumMatches(frame) ==
    frame[SIZEOF_PACKET_HEADER - 1] = calculateCRC8(HeaderFields(frame))

PayloadChecksumMatches(frame) ==
    LET payloadSize == uint16At(frame, 4, 0)
    IN  calculateCRC16(BytesAt(frame, SIZEOF_PACKET_HEADER, payloadSize, 0))
            = uint16At(frame, SIZEOF_PACKET_HEADER + payloadSize, 0)

C21_CountedOnlyIfVerified ==
    packetsReceived > 0 =>
        \A i \in 1 .. Len(emitted) :
            /\ HeaderChecksumMatches(emitted[i])
            /\ PayloadChecksumMatches(emitted[i])

(***************************************************************************)
(* C22 (chunking independence): however the bytes handed in so far were    *)
(* split into processIncomingData calls, the receive state, the frames     *)
(* accepted and the errors counted are those of handing the same bytes in  *)
(* one per call.                                                           *)
(***************************************************************************)
InitialFramerState ==
    [receiveBuffer |-> <<>>, inPacket |-> FALSE, expectedPayloadSize |-> 0,
     crcErrors |-> 0, packetsReceived |-> 0, emitted |-> <<>>, result |-> FALSE]

RECURSIVE OneByteACall(_, _, _)
OneByteACall(s, data, i) ==
    IF i > Len(data) THEN s
    ELSE CHOOSE final \in {OneByteACall(next, data, i + 1) :
                              next \in {processIncomingData(s, <<data[i]>>)}} : TRUE

C22_ChunkingIndependent ==
    FramerState = [OneByteACall(InitialFramerState, SubSeq(stream, 1, fed), 1)
                       EXCEPT !.result = FALSE]

\* Two frames were accepted, and the last call brought the end of the first
\* one together with the whole second one.
C22_Witness ==
    /\ fed = Len(stream)
    /\ Len(emitted) = 2
    /\ lastChunk > Len(emitted[2])
    /\ lastChunk < Len(stream)

(***************************************************************************)
(* C23 (resynchronization): whatever garbage without a start sequence      *)
(* comes before it, a frame that is accepted when it arrives alone is      *)
(* accepted when it arrives behind the garbage.                            *)
(* A byte that does not fit resets receiveIndex to 0 and is dropped, also  *)
(* when it is PACKET_START_BYTE1 arriving where PACKET_START_BYTE2 was     *)
(* expected: behind a garbage byte 0xAA the start sequence is missed.      *)
(***************************************************************************)
C23_Resynchronizes ==
    fed = Len(stream) =>
        \A garbage \in Garbage, frame \in ReceivableFrames :
            stream = garbage \o frame =>
                \E i \in 1 .. Len(emitted) : emitted[i] = frame

(***************************************************************************)
(* C24 (corrupted header, then a valid frame): for a stream made of a      *)
(* start sequence with a corrupted header and, right behind it, a          *)
(* complete valid frame, one error is counted and one frame is accepted,   *)
(* the second one.                                                         *)
(* A header damaged in its checksum byte passes validateHeader; the framer *)
(* goes on to collect payload and footer out of the frame that follows.    *)
(***************************************************************************)
C24_OneErrorOneFrame ==
    fed = Len(stream) =>
        \A header \in CorruptedHeaders, frame \in ReceivableFrames :
            stream = header \o frame =>
                /\ crcErrors = 1
                /\ emitted = <<frame>>

(***************************************************************************)
(* C25 (bad header): when the byte that completes the header arrives and   *)
(* the header checksum does not match or the declared length is above      *)
(* MAX_PAYLOAD_SIZE, one error is counted, nothing of the partial buffer   *)
(* is kept and the framer looks for a start sequence again.  The checksum  *)
(* is taken not to match when the checksum byte is neither the CRC8 of the *)
(* header fields nor what verifyCRC will accept.                           *)
(* validateHeader looks at the type and at the length only.                *)
(***************************************************************************)
HeaderCompletes ==
    /\ inPacket
    /\ Len(receiveBuffer) = SIZEOF_PACKET_HEADER - 1
    /\ fed' = fed + 1

HeaderRejectable(header) ==
    \/ /\ ~HeaderChecksumMatches(header)
       /\ header[SIZEOF_PACKET_HEADER - 1] \notin AcceptedChecksums(HeaderFields(header))
    \/ uint16At(header, 4, 0) > MAX_PAYLOAD_SIZE

C25_BadHeaderDiscarded ==
    [][(HeaderCompletes /\ HeaderRejectable(Append(receiveBuffer, stream[fed']))) =>
           /\ crcErrors' = crcErrors + 1
           /\ receiveBuffer' = <<>>
           /\ ~inPacket'
      ]_vars


(***************************************************************************)
(* C26 (a drop touches one entry): when the send half of processQueue      *)
(* finds the entry it is about to send with MAX_RETRIES attempts made (and *)
(* not waiting any more, or timed out), that entry and no other is taken   *)
(* out: the entries behind it in its level keep their order and all their  *)
(* fields, and the other four levels are as they were.                     *)
(***************************************************************************)
RetryExhausted ==
    /\ NonEmptyLevels(priorityQueues) # {}
    /\ LET entry == priorityQueues[HighestNonEmpty(priorityQueues)][1]
       IN  /\ entry.transmitAttempts >= MAX_RETRIES
           /\ entry.waitingForAck => (now - entry.lastTransmitTime) > ACK_TIMEOUT_MS

C26_DropRemovesOnlyThatEntry ==
    [][(SendStep /\ RetryExhausted) =>
           priorityQueues' = Without(priorityQueues, HighestNonEmpty(priorityQueues), 1)
      ]_vars

\* The telemetry entry is gone and so is the first camera chunk, at least
\* one of them dropped; the nine camera chunks behind it are in place,
\* untouched.
C26_Witness ==
    /\ pc = "idle"
    /\ transmitErrorCount > MaxTxErrors
    /\ priorityQueues[TELEMETRY - 1] = <<>>
    /\ priorityQueues[CAMERA - 1] =
           [i \in 1 .. (MAX_QUEUE_SIZE - 1) |->
               QueuedPacket(i + 1, Packet((i + 1) % (MaxSeq + 1), PayloadLength), CAMERA)]


(***************************************************************************)
(* C27 (ACK timeout rule): in the send half of processQueue, an entry that *)
(* waits for its ACK and for which now - lastTransmitTime is at most       *)
(* ACK_TIMEOUT_MS is neither sent again, nor changed, nor removed; an      *)
(* entry that waits and for which now - lastTransmitTime is above          *)
(* ACK_TIMEOUT_MS is treated as timed out in that very call: one ACK       *)
(* timeout is counted, and the entry is dropped, or sent again, or left    *)
(* not waiting by a transmission that failed.                              *)
(* processQueue looks at one entry, the head of the highest-priority       *)
(* non-empty level; a waiting entry anywhere else is not looked at when    *)
(* its time is up.                                                         *)
(***************************************************************************)
WaitingEntries(q) == {pos \in Positions(q) : EntryAt(q, pos).waitingForAck}

TimedOut(entry) == (now - entry.lastTransmitTime) > ACK_TIMEOUT_MS

C27_AckTimeoutRule ==
    [][SendStep =>
          \A pos \in WaitingEntries(priorityQueues) :
              LET entry == EntryAt(priorityQueues, pos)
              IN  IF ~TimedOut(entry)
                  THEN /\ entry.uid \in Uids(priorityQueues')
                       /\ EntryAt(priorityQueues', PositionOf(priorityQueues', entry.uid)) = entry
                  ELSE /\ ackTimeoutCount' = ackTimeoutCount + 1
                       /\ \/ entry.uid \notin Uids(priorityQueues')
                          \/ EntryAt(priorityQueues', PositionOf(priorityQueues', entry.uid))
                                 \in {[entry EXCEPT !.transmitAttempts = @ + 1,
                                                    !.lastTransmitTime = now,
                                                    !.waitingForAck = TRUE],
                                      [entry EXCEPT !.waitingForAck = FALSE]}
      ]_vars


(***************************************************************************)
(* C28 (one step per call): a call of adaptTransmissionSettings lowers the *)
(* spreading factor by exactly 1 if and only if the signal is above        *)
(* ADAPTIVE_SF_HIGH_THRESHOLD and the factor is above the floor 7, raises  *)
(* it by exactly 1 if and only if the signal is below                      *)
(* ADAPTIVE_SF_LOW_THRESHOLD and the factor is below the ceiling 12, and   *)
(* leaves it unchanged in every other case: a signal on or between the     *)
(* thresholds, or a factor already at (or, after setSpreadingFactor(6),    *)
(* beyond) the bound it would step towards.                                *)
(***************************************************************************)
C28_OneStepPerCall ==
    [][\A rssi \in AdaptRssi :
           AdaptTransmissionSettings(rssi) =>
               /\ currentSpreadingFactor' - currentSpreadingFactor \in {-1, 0, 1}
               /\ (currentSpreadingFactor' = currentSpreadingFactor - 1) <=>
                      (rssi > ADAPTIVE_SF_HIGH_THRESHOLD /\ currentSpreadingFactor > 7)
               /\ (currentSpreadingFactor' = currentSpreadingFactor + 1) <=>
                      (rssi < ADAPTIVE_SF_LOW_THRESHOLD /\ currentSpreadingFactor < 12)
      ]_vars

\* The controller has stepped the factor up to the ceiling, and the call just
\* made, with a signal that is not strong, left it there.
C28_Witness ==
    /\ lastCall = "adaptTransmissionSettings"
    /\ run = <<>>
    /\ adaptedValue = 12
    /\ currentSpreadingFactor = 12


(***************************************************************************)
(* C29 (the sample windows are rings): in every reachable state the two    *)
(* write indices rssiIndex and snrIndex lie in 0 .. RSSI_HISTORY_SIZE - 1  *)
(* and are equal, and once RSSI_HISTORY_SIZE or more samples have been     *)
(* recorded since construction or resetStatistics, the two windows hold    *)
(* exactly the last RSSI_HISTORY_SIZE of them: the k-th recorded sample    *)
(* sits in slot (k - 1) % RSSI_HISTORY_SIZE until the sample               *)
(* RSSI_HISTORY_SIZE recordings later overwrites it.                       *)
(***************************************************************************)
C29_RingOfLastSamples ==
    /\ rssiIndex \in 0 .. (RSSI_HISTORY_SIZE - 1)
    /\ snrIndex \in 0 .. (RSSI_HISTORY_SIZE - 1)
    /\ rssiIndex = snrIndex
    /\ Len(recorded) >= RSSI_HISTORY_SIZE =>
           \A k \in (Len(recorded) - RSSI_HISTORY_SIZE + 1) .. Len(recorded) :
               /\ rssiHistory[(k - 1) % RSSI_HISTORY_SIZE] = recorded[k][1]
               /\ snrHistory[(k - 1) % RSSI_HISTORY_SIZE] = recorded[k][2]

\* One sample more than the windows hold: the newest one has taken the slot of
\* the oldest, which was a different reading, and the indices have wrapped.
C29_Witness ==
    /\ Len(recorded) = RSSI_HISTORY_SIZE + 1
    /\ recorded[1] = <<-90, 7>>
    /\ recorded[RSSI_HISTORY_SIZE + 1] = <<-45, 0>>
    /\ rssiHistory[0] = -45
    /\ snrHistory[0] = 0
    /\ rssiIndex = 1
    /\ snrIndex = 1


(***************************************************************************)
(* C30 (what the payload checksum covers): the payload CRC that            *)
(* assemblePacket writes behind the payload, and the one verifyCRC         *)
(* computes to compare with it, is calculateCRC16 of type, sequence        *)
(* number, payload length and payload bytes in that order (the header      *)
(* bytes as the frame holds them, then the payload); the header CRC is     *)
(* computed by the other function, calculateCRC8.                          *)
(* Both places hand calculateCRC16 the payload bytes alone.                *)
(***************************************************************************)
C30_PayloadChecksumCoverage ==
    packetData # NULL =>
        LET n == Len(assembled.payload)
            covered == SubSeq(packetData, 3, SIZEOF_PACKET_HEADER - 2) \o assembled.payload
            written == SubSeq(packetData, SIZEOF_PACKET_HEADER + n, SIZEOF_PACKET_HEADER + n + 1)
            recomputed == calculateCRC16(BytesAt(packetData, SIZEOF_PACKET_HEADER - 1, n, 0))
        IN  /\ written = uint16ToBytes(calculateCRC16(covered))
            /\ recomputed = calculateCRC16(covered)


C32_WaitingOnlyAtHead ==
    /\ \A pos \in Positions(priorityQueues) :
           EntryAt(priorityQueues, pos).waitingForAck => pos[2] = 1
    /\ \A p \in Levels :
           Cardinality({i \in 1 .. Len(priorityQueues[p]) :
                            priorityQueues[p][i].waitingForAck}) <= 1
    /\ \A sequence \in SeqNums :
           findWaiting(priorityQueues, sequence) # NULL =>
               findWaiting(priorityQueues, sequence)[2] = 1

\* The full camera level after an overflow: the first chunk was shifted out
\* by a later sendPacket call, and the chunk that is the head now has been
\* transmitted and waits, with nine entries behind it.
C32_Witness ==
    /\ Len(priorityQueues[CAMERA - 1]) = MAX_QUEUE_SIZE
    /\ priorityQueues[CAMERA - 1][1].uid = 2
    /\ priorityQueues[CAMERA - 1][1].waitingForAck
    /\ priorityQueues[CAMERA - 1][MAX_QUEUE_SIZE].uid = MAX_QUEUE_SIZE + 2


(***************************************************************************)
(* C33 (the queue owns its payload): the payload bytes of every frame      *)
(* transmitted for a queued entry are the bytes the producer's buffer held *)
(* when the sender call for that entry was made, whatever the producer did *)
(* to its buffer afterwards.                                               *)
(* The queue holds the producer's pointer, not a copy: the frame carries   *)
(* what the buffer holds at the time of the transmission.                  *)
(***************************************************************************)
C33_TransmitsWhatWasHandedIn ==
    onAir.uid # 0 => onAir.payload = handedIn[onAir.uid]


(***************************************************************************)
(* C35 (radio-frame round trip): for every packet serializePacket accepts  *)
(* (serialized size at most MAX_PACKET_SIZE), deserializePacket applied to *)
(* the bytes it wrote succeeds and yields the same type, sequence number,  *)
(* payload length and payload bytes, and validatePacket accepts the        *)
(* result: the CRC calculatePacketCRC put into the frame is the one        *)
(* calculateCRC16 recomputes.                                              *)
(***************************************************************************)
C35_RadioRoundTrip ==
    serialized # <<>> =>
        \E packet \in {deserializePacket(serialized)} :
            /\ packet # NULL
            /\ packet.type = serializedFrom.type
            /\ packet.sequenceNumber = serializedFrom.sequenceNumber
            /\ Len(packet.payload) = Len(serializedFrom.payload)
            /\ packet.payload = serializedFrom.payload
            /\ packet.crc16 = calculatePacketCRC(serializedFrom)
            /\ LoRaManager_validatePacket(packet)

\* The largest frame there is, with a sequence number that uses both bytes.
C35_Witness ==
    /\ Len(serialized) = MAX_PACKET_SIZE
    /\ serializedFrom.payload = LongestPayload
    /\ serializedFrom.sequenceNumber = 65535
    /\ serializedFrom.type = 255


(***************************************************************************)
(* C34.  Every buffer the queue allocates is released exactly once: free   *)
(* is never given an address that is not allocated, no slot at or past     *)
(* queueSize holds the address of a buffer that a counted slot holds or    *)
(* that was handed to the caller, and every allocated buffer is still      *)
(* within reach of the queue or of the caller.                             *)
(***************************************************************************)
CountedBuffers == {packetQueue[i].data : i \in 0 .. (queueSize - 1)} \ {0}

StaleAliases ==
    {i \in queueSize .. (QUEUE_SLOTS - 1) :
        /\ packetQueue[i].data # 0
        /\ packetQueue[i].data \in CountedBuffers \cup held}

LeakedBuffers == live \ ({packetQueue[i].data : i \in Slots} \cup held)

C34_EveryBufferReleasedOnce ==
    /\ ~undefinedBehaviour
    /\ StaleAliases = {}
    /\ LeakedBuffers = {}


(***************************************************************************)
(* C38.  The queue of PacketHandler never counts more than 16 slots; the   *)
(* counted slots are in order of non-increasing priority, and those of one *)
(* priority in the order they were added; dequeuePacket returns the packet *)
(* of slot 0; and addToBuffer on a full queue with no LOW or NORMAL packet *)
(* adds one to packetsDropped and leaves the queue as it was.              *)
(***************************************************************************)
CountedSlots == 0 .. (queueSize - 1)

QueueInOrder ==
    \A i, j \in CountedSlots :
        i < j =>
            \/ packetQueue[i].priority > packetQueue[j].priority
            \/ /\ packetQueue[i].priority = packetQueue[j].priority
               /\ packetQueue[i].uid < packetQueue[j].uid

NothingToEvict ==
    /\ queueSize = QUEUE_SLOTS
    /\ \A i \in CountedSlots :
           packetQueue[i].priority \notin {PRIORITY_LOW, PRIORITY_NORMAL}

DequeueTakesFront ==
    dequeued' # dequeued =>
        /\ dequeued'.uid = packetQueue[0].uid
        /\ dequeued'.data = packetQueue[0].data
        /\ queueSize' = queueSize - 1

FullQueueRejects ==
    (NothingToEvict /\ bufferOps' # bufferOps /\ queueSize' = QUEUE_SLOTS) =>
        /\ packetsDropped' = packetsDropped + 1
        /\ packetQueue' = packetQueue
        /\ added' = added

DeclaredFrameSize(buffer) ==
    SIZEOF_PACKET_HEADER + uint16At(buffer, 4, 0) + SIZEOF_PACKET_FOOTER

C36_ReceiveBufferNeverOverrun ==
    /\ Len(receiveBuffer) <= SIZEOF_RECEIVE_BUFFER
    /\ Len(receiveBuffer) >= SIZEOF_PACKET_HEADER =>
           DeclaredFrameSize(receiveBuffer) <= SIZEOF_RECEIVE_BUFFER

\* The framer right after the header of a frame too large for the buffer:
\* reset, nothing collected.
C36_Witness ==
    /\ fed = SIZEOF_PACKET_HEADER
    /\ DeclaredFrameSize(stream) > SIZEOF_RECEIVE_BUFFER
    /\ receiveBuffer = <<>>
    /\ ~inPacket
    /\ expectedPayloadSize = 0


(***************************************************************************)
(* C37.  The statistics are exact: packetsReceived is the number of frames *)
(* the framer accepted so far, one for each.                               *)
(***************************************************************************)
C37_StatisticsExact == packetsReceived = Len(emitted)


(***************************************************************************)
(* C39.  LoRaManager::resetStatistics sets the four error counters to 0    *)
(* and empties both sample windows, so that both averages are the no-data  *)
(* value -128 for as long as no sample is recorded afterwards; it leaves   *)
(* the five queues with every field of every entry, and the spreading      *)
(* factor in use, as they were.                                            *)
(***************************************************************************)
NoSampleValue == -128

StatisticsCleared ==
    /\ transmitErrorCount' = 0
    /\ receiveErrorCount' = 0
    /\ crcErrorCount' = 0
    /\ ackTimeoutCount' = 0
    /\ \A i \in 0 .. (RSSI_HISTORY_SIZE - 1) : rssiHistory'[i] = 0 /\ snrHistory'[i] = 0
    /\ getAverage(rssiHistory') = NoSampleValue
    /\ getAverage(snrHistory') = NoSampleValue

TransmissionStateKept ==
    /\ priorityQueues' = priorityQueues
    /\ currentSpreadingFactor' = currentSpreadingFactor

C39_ResetStatisticsFrame ==
    /\ [](recorded = <<>> =>
              getAverageRSSI = NoSampleValue /\ getAverageSNR = NoSampleValue)
    /\ [][resetStatistics => StatisticsCleared /\ TransmissionStateKept]_vars

\* After a reset that followed a reading: counters at 0, windows empty, an
\* entry still waiting for its acknowledgement after a transmission, and
\* the spreading factor still the adapted one.
C39_Witness ==
    /\ recorded = <<>>
    /\ lastRssi = -90
    /\ transmitErrorCount = 0
    /\ receiveErrorCount = 0
    /\ crcErrorCount = 0
    /\ ackTimeoutCount = 0
    /\ getAverageRSSI = NoSampleValue
    /\ currentSpreadingFactor # LORA_SPREADING_FACTOR
    /\ \E p \in Levels : \E i \in 1 .. Len(priorityQueues[p]) :
           /\ priorityQueues[p][i].waitingForAck
           /\ priorityQueues[p][i].transmitAttempts > 0
           /\ priorityQueues[p][i].lastTransmitTime > 0

=============================================================================
